---- MODULE Spec2Model ----
(***************************************************************************)
(* KYB automation service (src/kyb.js): the job store, the single-worker   *)
(* queue, the HTTP handlers and the resolution pipeline run by the worker. *)
(*                                                                         *)
(* Node runs one callback at a time: a request handler, or the part of an  *)
(* async processor between two awaited external calls, runs to completion  *)
(* before anything else.  Every action below is one such run.  Awaits on   *)
(* values that are already settled (returning from an async function, the  *)
(* finally block of processNextJob) are microtasks and belong to the same  *)
(* run as the code before them.                                            *)
(*                                                                         *)
(* Text is modelled as a sequence of one-character strings; the empty      *)
(* sequence stands for every falsy value of the source (null, undefined,   *)
(* the empty string).                                                      *)
(***************************************************************************)
EXTENDS Integers, Sequences, FiniteSets, TLC

\* ------------------------------------------------------------------ bounds
\* Three workloads are explored.  With every external service answering in
\* every way it can: MaxJobsOnline jobs and MaxContinuesOnline continuations.
\* With the AI service down and a registry that holds one active company, and
\* with the whole network down (every external call fails): MaxJobs jobs and
\* MaxContinues continuations.
MaxJobsOnline == 1
MaxContinuesOnline == 1
MaxJobs == 3
MaxContinues == 2

\* The pure helpers exercised on their own: each input is given to its helper
\* MaxCalls times; the digit runs of the CRN inputs have 0 to MaxDigits digits.
MaxCalls == 2
MaxDigits == 10
\* calculateJobProgress is given log lengths 0 to MaxSteps.
MaxSteps == 12

\* ------------------------------------------------------- program constants
RejectSimilarityTenths == 4
WrongCompanyTenths == 3
ConfirmCompanyTenths == 5
SearchSimilarityTenths == 7
WebsiteNameTenths == 7
AlternativeSimilarityTenths == 8

\* ------------------------------------------------------------ input values
Null == <<>>

Digits == {"0", "1", "2", "3", "4", "5", "6", "7", "8", "9"}
UpperLetters == {"A", "B", "C", "I", "N", "O", "S"}

CrnGood == <<"1", "2", "3", "4", "5", "6", "7", "8">>
CrnScottish == <<"S", "C", "1", "2", "3", "4", "5", "6">>
CrnShort == <<"1", "2", "3", "4", "5", "6", "7">>

NameRequested == <<"a", "b", "c">>
NameCorrected == <<"a", "b", "d">>

SiteUrl == <<"u">>
ConfirmYes == <<"y", "e", "s">>

\* ----------------------------------------------------------- pure helpers
IsDigits(s) == \A i \in 1..Len(s) : s[i] \in Digits

\* a variant of validateCRNFormat whose unprefixed form takes 6 to 8 digits
validateCRNFormat_sixToEightDigits(crn) ==
  \/ Len(crn) >= 6 /\ Len(crn) <= 8 /\ IsDigits(crn)
  \/ /\ Len(crn) >= 8 /\ Len(crn) <= 10
     /\ <<crn[1], crn[2]>> \in {<<"S", "C">>, <<"N", "I">>, <<"O", "C">>}
     /\ IsDigits(SubSeq(crn, 3, Len(crn)))

validateCRNFormat(crn) ==
  \/ Len(crn) = 8 /\ IsDigits(crn)
  \/ /\ Len(crn) >= 8 /\ Len(crn) <= 10
     /\ <<crn[1], crn[2]>> \in {<<"S", "C">>, <<"N", "I">>, <<"O", "C">>}
     /\ IsDigits(SubSeq(crn, 3, Len(crn)))

Min2(a, b) == IF a < b THEN a ELSE b
Max2(a, b) == IF a > b THEN a ELSE b

\* one row of the edit-distance matrix from the row above it
RECURSIVE levenshteinRow(_, _, _, _, _)
levenshteinRow(prev, c, s2, j, acc) ==
  IF j > Len(s2) THEN acc
  ELSE LET cost == IF c = s2[j] THEN 0 ELSE 1
           cell == Min2(Min2(prev[j + 1] + 1, acc[j] + 1), prev[j] + cost)
       IN levenshteinRow(prev, c, s2, j + 1, Append(acc, cell))

RECURSIVE levenshteinRows(_, _, _, _)
levenshteinRows(s1, s2, i, prev) ==
  IF i > Len(s1) THEN prev
  ELSE levenshteinRows(s1, s2, i + 1, levenshteinRow(prev, s1[i], s2, 1, <<prev[1] + 1>>))

levenshteinDistance(s1, s2) ==
  IF Len(s1) = 0 THEN Len(s2)
  ELSE IF Len(s2) = 0 THEN Len(s1)
  ELSE levenshteinRows(s1, s2, 1, [j \in 1..(Len(s2) + 1) |-> j - 1])[Len(s2) + 1]

LowerOf ==
  [c \in {"A", "B", "C", "D", "I", "L", "M", "N", "O", "P", "S", "T"} |->
     CASE c = "A" -> "a" [] c = "B" -> "b" [] c = "C" -> "c" [] c = "D" -> "d"
       [] c = "I" -> "i" [] c = "L" -> "l" [] c = "M" -> "m" [] c = "N" -> "n"
       [] c = "O" -> "o" [] c = "P" -> "p" [] c = "S" -> "s" [] c = "T" -> "t"]

toLowerCase(s) == [i \in 1..Len(s) |-> IF s[i] \in DOMAIN LowerOf THEN LowerOf[s[i]] ELSE s[i]]

LowerLetters ==
  {"a", "b", "c", "d", "e", "f", "g", "h", "i", "j", "k", "l", "m", "n", "o", "p", "q",
   "r", "s", "t", "u", "v", "w", "x", "y", "z"}

WordChars == LowerLetters \cup {"_"} \cup Digits
SpaceChars == {" "}

\* the alternatives of the legal-entity pattern, in the order the pattern
\* lists them; an optional trailing dot is a longer alternative tried first
LegalWords ==
  << <<"l", "i", "m", "i", "t", "e", "d">>,
     <<"l", "t", "d", ".">>, <<"l", "t", "d">>,
     <<"l", "l", "c">>, <<"l", "l", "p">>,
     <<"i", "n", "c", ".">>, <<"i", "n", "c">>,
     <<"i", "n", "c", "o", "r", "p", "o", "r", "a", "t", "e", "d">>,
     <<"p", "l", "c">>,
     <<"c", "o", "r", "p", "o", "r", "a", "t", "i", "o", "n">>,
     <<"c", "o", "r", "p", ".">>, <<"c", "o", "r", "p">>,
     <<"c", "o", "m", "p", "a", "n", "y">> >>

StartsWithAt(s, i, w) == i + Len(w) - 1 <= Len(s) /\ SubSeq(s, i, i + Len(w) - 1) = w

\* length of the first alternative that matches at position i, 0 if none
LegalMatchAt(s, i) ==
  LET hits == {k \in 1..Len(LegalWords) : StartsWithAt(s, i, LegalWords[k])}
  IN IF hits = {} THEN 0
     ELSE Len(LegalWords[CHOOSE k \in hits : \A m \in hits : k <= m])

RECURSIVE removeLegalWords(_, _)
removeLegalWords(s, i) ==
  IF i > Len(s) THEN <<>>
  ELSE LET n == LegalMatchAt(s, i)
       IN IF n > 0 THEN removeLegalWords(s, i + n)
          ELSE <<s[i]>> \o removeLegalWords(s, i + 1)

removePunctuation(s) == SelectSeq(s, LAMBDA c : c \in WordChars \/ c \in SpaceChars)

RECURSIVE collapseSpaces(_, _)
collapseSpaces(s, i) ==
  IF i > Len(s) THEN <<>>
  ELSE IF s[i] \in SpaceChars
       THEN IF i > 1 /\ s[i - 1] \in SpaceChars THEN collapseSpaces(s, i + 1)
            ELSE <<" ">> \o collapseSpaces(s, i + 1)
       ELSE <<s[i]>> \o collapseSpaces(s, i + 1)

RECURSIVE trim(_)
trim(s) ==
  IF s = <<>> THEN s
  ELSE IF Head(s) \in SpaceChars THEN trim(Tail(s))
  ELSE IF s[Len(s)] \in SpaceChars THEN trim(SubSeq(s, 1, Len(s) - 1))
  ELSE s

normalizeCompanyName(name) ==
  IF name = <<>> THEN <<>>
  ELSE trim(collapseSpaces(removePunctuation(removeLegalWords(toLowerCase(name), 1)), 1))

\* the score as the fraction <<numerator, denominator>>
calculateNameSimilarity(name1, name2) ==
  LET n1 == normalizeCompanyName(name1)
      n2 == normalizeCompanyName(name2)
      distance == levenshteinDistance(n1, n2)
      maxLength == Max2(Len(n1), Len(n2))
  IN IF maxLength = 0 THEN <<1, 1>> ELSE <<maxLength - distance, maxLength>>

\* the alternatives of calculateStringSimilarity's business-term pattern, in
\* the order the pattern lists them
BusinessTerms ==
  << <<"l", "t", "d">>, <<"l", "i", "m", "i", "t", "e", "d">>, <<"p", "l", "c">>,
     <<"l", "l", "p">>, <<"i", "n", "c">>, <<"g", "m", "b", "h">>, <<"l", "l", "c">>,
     <<"c", "o", "r", "p", "o", "r", "a", "t", "i", "o", "n">>, <<"c", "o", "r", "p">>,
     <<"g", "r", "o", "u", "p">>, <<"h", "o", "l", "d", "i", "n", "g", "s">>,
     <<"u", "k">> >>

\* a term matches at i when white space or the end of the string follows it
TermAt(s, i, w) ==
  /\ StartsWithAt(s, i, w)
  /\ i + Len(w) = Len(s) + 1 \/ s[i + Len(w)] \in SpaceChars

\* number of characters the pattern consumes at position i, 0 if it does not
\* match: the term and the white-space character after it, if there is one
TermMatchAt(s, i) ==
  LET hits == {k \in 1..Len(BusinessTerms) : TermAt(s, i, BusinessTerms[k])}
  IN IF hits = {} THEN 0
     ELSE LET w == BusinessTerms[CHOOSE k \in hits : \A m \in hits : k <= m]
          IN IF i + Len(w) = Len(s) + 1 THEN Len(w) ELSE Len(w) + 1

RECURSIVE replaceBusinessTerms(_, _)
replaceBusinessTerms(s, i) ==
  IF i > Len(s) THEN <<>>
  ELSE LET n == TermMatchAt(s, i)
       IN IF n > 0 THEN <<" ">> \o replaceBusinessTerms(s, i + n)
          ELSE <<s[i]>> \o replaceBusinessTerms(s, i + 1)

punctuationToSpaces(s) ==
  [i \in 1..Len(s) |-> IF s[i] \in WordChars \/ s[i] \in SpaceChars THEN s[i] ELSE " "]

\* the normalize closure of calculateStringSimilarity
normalize(s) ==
  trim(collapseSpaces(punctuationToSpaces(replaceBusinessTerms(toLowerCase(s), 1)), 1))

\* the score as the fraction <<numerator, denominator>>
calculateStringSimilarity(str1, str2) ==
  LET a == normalize(str1)
      b == normalize(str2)
      maxLength == Max2(Len(a), Len(b))
  IN IF Len(a) = 0 \/ Len(b) = 0 THEN <<0, 1>>
     ELSE <<maxLength - levenshteinDistance(b, a), maxLength>>

\* score < tenths/10 and score > tenths/10
Below(score, tenths) == score[1] * 10 < tenths * score[2]
Above(score, tenths) == score[1] * 10 > tenths * score[2]

\* ------------------------------------------------------------------- state
VARIABLES
  jobStatus,     \* job id -> status; "none" while the id is not in the map
  jobLogs,       \* job id -> the job's log, a sequence of entries
  jobResult,     \* job id -> the result property stored on the job's log array
  jobQueue,      \* the queued work items, head first
  isProcessing,  \* the worker flag
  proc,          \* job id -> where that job's processor is suspended, and its locals
  nextJobId,     \* the ids handed out so far are 1 .. nextJobId - 1
  continues,     \* number of continuations accepted so far
  network,       \* "up", "ai_down" or "down": which external services answer; fixed
  jobLimit,      \* workload: number of startKYB requests explored; fixed
  continueLimit, \* workload: number of accepted continueKYB requests explored; fixed
  transitions,   \* history: every change of a job's status, as <<from, to>>
  nextTicket,    \* history: enqueue counter; an item's ticket is its enqueue rank
  startOrder,    \* history: tickets of the items in the order the worker started them
  call           \* a call of one of the pure helpers: its name, arguments and answer

serviceVars == <<jobStatus, jobLogs, jobResult, jobQueue, isProcessing, proc, nextJobId,
                 continues, network, jobLimit, continueLimit, transitions, nextTicket,
                 startOrder>>

vars == <<jobStatus, jobLogs, jobResult, jobQueue, isProcessing, proc, nextJobId,
          continues, network, jobLimit, continueLimit, transitions, nextTicket, startOrder,
          call>>

MaxOf(a, b) == IF a > b THEN a ELSE b

JobIds == 1..MaxOf(MaxJobs, MaxJobsOnline)

Workloads ==
  {[network |-> "up", jobLimit |-> MaxJobsOnline, continueLimit |-> MaxContinuesOnline],
   [network |-> "ai_down", jobLimit |-> MaxJobs, continueLimit |-> MaxContinues],
   [network |-> "down", jobLimit |-> MaxJobs, continueLimit |-> MaxContinues]}

\* no helper is being exercised
NoCall == [fn |-> "none"]

NoResult ==
  [verification_status |-> "undefined", company_registration_number |-> Null,
   validation_issues |-> <<>>]

NoData ==
  [business_name |-> Null, crn |-> Null, company_name |-> Null, website |-> Null,
   confirm_company |-> Null]

Entry(step) ==
  [step |-> step, required_fields |-> {}, result |-> NoResult, data |-> NoData, error |-> ""]

Idle ==
  [pc |-> "idle", business_name |-> Null, crn |-> Null, website |-> Null,
   company_status |-> "", company_name |-> Null, site_crn |-> Null, site_name |-> Null]

\* the program state as one value, so that a run of a handler or of a
\* processor segment is a function from state to state
State ==
  [jobStatus |-> jobStatus, jobLogs |-> jobLogs, jobResult |-> jobResult,
   jobQueue |-> jobQueue, isProcessing |-> isProcessing, proc |-> proc,
   transitions |-> transitions, nextTicket |-> nextTicket, startOrder |-> startOrder]

Becomes(S) ==
  /\ jobStatus' = S.jobStatus
  /\ jobLogs' = S.jobLogs
  /\ jobResult' = S.jobResult
  /\ jobQueue' = S.jobQueue
  /\ isProcessing' = S.isProcessing
  /\ proc' = S.proc
  /\ transitions' = S.transitions
  /\ nextTicket' = S.nextTicket
  /\ startOrder' = S.startOrder

\* jobStatus[id] = status
SetStatus(S, id, status) ==
  [S EXCEPT !.jobStatus[id] = status,
            !.transitions = IF S.jobStatus[id] = status THEN @
                            ELSE @ \cup {<<S.jobStatus[id], status>>}]

\* a variant of Push that replaces the log by the new entry
Push_replacesLog(S, id, entry) == [S EXCEPT !.jobLogs[id] = <<entry>>]

\* jobLogs[id].push(entry)
Push(S, id, entry) == [S EXCEPT !.jobLogs[id] = Append(@, entry)]

PushStep(S, id, step) == Push(S, id, Entry(step))

\* jobStatus[id] = 'action_required' and the entry that carries required_fields
RequireAction(S, id, step, fields) ==
  Push(SetStatus(S, id, "action_required"), id,
       [Entry(step) EXCEPT !.required_fields = fields])

Suspend(S, id, locals) == [S EXCEPT !.proc[id] = locals]

\* jobQueue.push(item)
Enqueue(S, item) ==
  [S EXCEPT !.jobQueue = Append(@, [item EXCEPT !.ticket = S.nextTicket]),
            !.nextTicket = @ + 1]

\* a variant of shift that takes the newest item instead of the oldest
shift_newestFirst(queue) ==
  [item |-> queue[Len(queue)], rest |-> SubSeq(queue, 1, Len(queue) - 1)]

\* jobQueue.shift()
shift(queue) == [item |-> Head(queue), rest |-> Tail(queue)]

\* ------------------------------------------------------- external answers
\* Each external call is answered by one element of a set that has one
\* representative for every case the calling code tells apart.
AiCrns == {CrnGood, CrnShort}

NameSame == <<"A", "B", "C", " ", "L", "T", "D", ".">>   \* similarity 1 to NameRequested
NameNear == <<"a", "b", "x">>                            \* similarity 2/3
NameDoubtful == <<"a", "b", "c", "w", "x", "y", "z">>    \* similarity 3/7
NameFar == <<"a", "x", "y">>                             \* similarity 1/3
NameOther == <<"x", "y", "z">>                           \* similarity 0

\* first AI prompt: request error or timeout; a reply without text; JSON with
\* or without a crn; free text with a labelled crn, a crn-shaped token, or none
FirstAiAnswers ==
  {[kind |-> k, crn |-> Null] : k \in {"error", "null_content", "json", "text"}}
  \cup {[kind |-> k, crn |-> c] : k \in {"json", "text_label", "text_generic"}, c \in AiCrns}

RegistryOk(status, name) ==
  [kind |-> "ok", company_status |-> status, company_name |-> name, code |-> 200]

RegistryError(kind, code) ==
  [kind |-> kind, company_status |-> "", company_name |-> Null, code |-> code]

\* registry single-company lookup: a 2xx answer with or without a body, an
\* HTTP error status, or no answer before the timeout
RegistryFailures ==
  {RegistryError("http_error", c) : c \in {401, 403, 404, 429, 500}}
  \cup {RegistryError("timeout", 0)}

\* answers to the two sanity checks of a candidate CRN
CandidateCheckAnswers ==
  {RegistryOk("active", n) : n \in {NameSame, NameFar, NameOther, Null}}
  \cup RegistryFailures

\* answers to the verification lookup of kybTask
VerificationAnswers ==
  {RegistryOk("active", n) : n \in {NameSame, NameNear, NameDoubtful, NameFar, NameOther, Null}}
  \cup {RegistryOk("dissolved", NameSame)}
  \cup RegistryFailures

\* answers to the profile lookup of processCRN
ProfileAnswers ==
  {RegistryOk(st, n) : st \in {"active", "dissolved"}, n \in {NameSame, Null}}
  \cup {RegistryOk("active", NameOther)}
  \cup {RegistryError("no_data", 200)}
  \cup RegistryFailures

SearchItem(title, number, status) ==
  [title |-> title, company_number |-> number, company_status |-> status]

SearchOk(items) == [kind |-> "ok", items |-> items]

\* registry name search for the requested name: an error, or a list of items
SearchAnswers ==
  {[kind |-> "error", items |-> <<>>], SearchOk(<<>>),
   SearchOk(<<SearchItem(NameSame, CrnGood, "active")>>),
   SearchOk(<<SearchItem(NameNear, CrnGood, "active")>>),
   SearchOk(<<SearchItem(NameSame, CrnGood, "dissolved"),
              SearchItem(NameSame, CrnScottish, "active")>>)}

SecondAiAnswers ==
  {[kind |-> k, crn |-> Null] : k \in {"error", "negative", "other"}}
  \cup {[kind |-> "crn", crn |-> c] : c \in AiCrns}

WebsiteAiAnswers ==
  {[kind |-> k, website |-> Null] : k \in {"error", "null_content", "json", "text"}}
  \cup {[kind |-> k, website |-> SiteUrl] : k \in {"json", "text"}}

\* what scrapeWebsiteForCRN returns from its catch block when the fetch or the
\* parsing of the page fails: no crn, the data object as initialised, and the
\* note 'Error scraping website: ...'
scrapeFailed == [kind |-> "ok", crn |-> Null, company_name |-> Null, error_note |-> TRUE]

\* what the collector found on the website; it throws only for a url that is
\* no string
ScrapeAnswers ==
  {[kind |-> "throws", crn |-> Null, company_name |-> Null, error_note |-> FALSE]}
  \cup {[kind |-> "ok", crn |-> c, company_name |-> n, error_note |-> FALSE] :
          c \in {Null, CrnGood, CrnScottish}, n \in {Null, NameSame, NameOther}}
  \cup {scrapeFailed}

\* registry name search for the name found on the website
WebsiteNameSearchAnswers ==
  {[kind |-> "error", items |-> <<>>], SearchOk(<<>>),
   SearchOk(<<SearchItem(NameNear, CrnGood, "active"),
              SearchItem(NameOther, CrnScottish, "active")>>),
   SearchOk(<<SearchItem(NameOther, CrnGood, "active")>>)}

\* the AI's own opinion of the CRN; the helper answers no CRN when its call fails
VerifyAiAnswers ==
  {[kind |-> "error", crn |-> Null]}
  \cup {[kind |-> "ok", crn |-> c] : c \in {Null, CrnGood, CrnScottish}}

\* ---------------------------------------------------------------- worker
RECURSIVE processNextJob(_)

\* a variant of ProcessorReturns whose finally block does not start the next job
ProcessorReturns_queueNotDrained(S, id) ==
  [S EXCEPT !.proc[id] = Idle, !.isProcessing = FALSE]

\* the processor of job id has returned: the finally block of processNextJob
ProcessorReturns(S, id) ==
  processNextJob([S EXCEPT !.proc[id] = Idle, !.isProcessing = FALSE])

\* processCRN's catch block: back to action_required, asking for a CRN
processCRNFails(S, id) ==
  ProcessorReturns(RequireAction(S, id, "Action Required", {"crn"}), id)

toUpperCase(s) ==
  [i \in 1..Len(s) |->
     IF \E u \in DOMAIN LowerOf : LowerOf[u] = s[i]
     THEN CHOOSE u \in DOMAIN LowerOf : LowerOf[u] = s[i] ELSE s[i]]

\* addressMatch is declared false and never assigned again
addressMatch == FALSE

\* a variant of compileResult that adopts the CRN found on the website
compileResult_adoptsWebsiteCrn(l) ==
  LET hasValidData == l.company_name /= Null /\ l.company_status = "active"
  IN [verification_status |-> IF ~hasValidData THEN "no_company_found" ELSE "verified",
      company_registration_number |->
        IF ~hasValidData THEN Null ELSE IF l.site_crn /= Null THEN l.site_crn ELSE l.crn,
      validation_issues |-> <<>>]

\* the compiled result: verification_status and validation_issues
compileResult(l) ==
  LET hasValidData == l.company_name /= Null /\ l.company_status = "active"
      crnMatches == l.site_crn /= Null /\ toUpperCase(l.site_crn) = toUpperCase(l.crn)
      crnIssue ==
        IF l.site_crn /= Null /\ toUpperCase(l.site_crn) /= toUpperCase(l.crn)
        THEN <<"CRN mismatch">>
        ELSE IF l.site_crn = Null /\ l.website /= Null
             THEN <<"CRN not found on company website">>
             ELSE <<>>
      addressIssue ==
        IF ~addressMatch /\ l.website /= Null THEN <<"Company address not found">> ELSE <<>>
  IN [verification_status |->
        IF ~hasValidData THEN "no_company_found"
        ELSE IF crnMatches \/ addressMatch \/ TRUE THEN "verified"
        ELSE "warning: validation issues found",
      company_registration_number |-> IF hasValidData THEN l.crn ELSE Null,
      validation_issues |-> crnIssue \o addressIssue]

\* a variant of completeJob that does not store the result on the log array
completeJob_resultNotStored(S, id, result) ==
  LET S1 == Push(S, id, [Entry("Completed") EXCEPT !.result = result])
  IN ProcessorReturns(SetStatus(S1, id, "completed"), id)

\* a variant of completeJob whose 'Completed' entry does not embed the result
completeJob_resultNotEmbedded(S, id, result) ==
  LET S1 == PushStep(S, id, "Completed")
      S2 == [S1 EXCEPT !.jobResult[id] = result]
  IN ProcessorReturns(SetStatus(S2, id, "completed"), id)

\* the 'Completed' entry, the stored result and the status, set together
completeJob(S, id, result) ==
  LET S1 == Push(S, id, [Entry("Completed") EXCEPT !.result = result])
      S2 == [S1 EXCEPT !.jobResult[id] = result]
  IN ProcessorReturns(SetStatus(S2, id, "completed"), id)

notFoundResult ==
  [verification_status |-> "no_company_found", company_registration_number |-> Null,
   validation_issues |-> <<"No matching company found in Companies House records">>]

\* a variant of processCRN that fails the job when the CRN's format is rejected
processCRN_formatErrorFailsJob(S, id, business_name, crn, website) ==
  IF crn = Null THEN completeJob(S, id, notFoundResult)
  ELSE IF ~validateCRNFormat(crn)
       THEN ProcessorReturns(PushStep(SetStatus(S, id, "failed"), id, "Error"), id)
  ELSE Suspend(S, id, [Idle EXCEPT !.pc = "profile", !.business_name = business_name,
                                   !.crn = crn, !.website = website])

\* processCRN up to its first external call
processCRN(S, id, business_name, crn, website) ==
  IF crn = Null THEN completeJob(S, id, notFoundResult)
  ELSE IF ~validateCRNFormat(crn) THEN processCRNFails(S, id)
  ELSE Suspend(S, id, [Idle EXCEPT !.pc = "profile", !.business_name = business_name,
                                   !.crn = crn, !.website = website])

afterProfile(S, id, r) ==
  IF r.kind /= "ok" THEN processCRNFails(S, id)
  ELSE Suspend(PushStep(S, id, "Companies House Profile"), id,
               [S.proc[id] EXCEPT !.pc = "officers", !.company_status = r.company_status,
                                  !.company_name = r.company_name])

afterOfficers(S, id) == Suspend(S, id, [S.proc[id] EXCEPT !.pc = "psc"])

afterPsc(S, id) == Suspend(S, id, [S.proc[id] EXCEPT !.pc = "document"])

compileAndComplete(S, id) == completeJob(S, id, compileResult(S.proc[id]))

afterDocument(S, id) ==
  IF S.proc[id].website /= Null
  THEN Suspend(S, id, [S.proc[id] EXCEPT !.pc = "scrape"])
  ELSE compileAndComplete(S, id)

\* the logging after the name comparison, then the compilation
afterNameCheck(S, id) ==
  LET l == S.proc[id]
      S1 == IF l.site_crn /= Null
            THEN PushStep(PushStep(S, id, "Website CRN Validation"), id, "CRN Cross-Validation")
            ELSE PushStep(S, id, "Website Data")
  IN compileAndComplete(PushStep(S1, id, "Website Scrape Details"), id)

\* a variant of afterScrape for which a failed website fetch ends the run as a
\* failed registry lookup does
afterScrape_failureIsFatal(S, id, w) ==
  IF w.error_note THEN processCRNFails(S, id)
  ELSE IF w.kind = "throws"
  THEN compileAndComplete(PushStep(S, id, "Website CRN Validation"), id)
  ELSE LET l == [S.proc[id] EXCEPT !.site_crn = w.crn, !.site_name = w.company_name]
           S0 == Suspend(S, id, l)
       IN IF w.company_name = Null THEN afterNameCheck(S0, id)
          ELSE LET namesSimilar ==
                     Above(calculateNameSimilarity(w.company_name, l.company_name),
                           WebsiteNameTenths)
                   S1 == PushStep(S0, id, "Company Name Comparison")
               IN IF namesSimilar THEN afterNameCheck(S1, id)
                  ELSE Suspend(PushStep(S1, id, "Company Name Mismatch"), id,
                               [l EXCEPT !.pc = "search_website_name"])

afterScrape(S, id, w) ==
  IF w.kind = "throws"
  THEN compileAndComplete(PushStep(S, id, "Website CRN Validation"), id)
  ELSE LET l == [S.proc[id] EXCEPT !.site_crn = w.crn, !.site_name = w.company_name]
           S0 == Suspend(S, id, l)
       IN IF w.company_name = Null THEN afterNameCheck(S0, id)
          ELSE LET namesSimilar ==
                     Above(calculateNameSimilarity(w.company_name, l.company_name),
                           WebsiteNameTenths)
                   S1 == PushStep(S0, id, "Company Name Comparison")
               IN IF namesSimilar THEN afterNameCheck(S1, id)
                  ELSE Suspend(PushStep(S1, id, "Company Name Mismatch"), id,
                               [l EXCEPT !.pc = "search_website_name"])

\* the item of highest similarity among the first three, the earliest on ties
bestOfTopThree(items, name) ==
  LET top == 1..Min2(3, Len(items))
      better(i, k) ==
        LET si == calculateNameSimilarity(name, items[i].title)
            sk == calculateNameSimilarity(name, items[k].title)
        IN si[1] * sk[2] > sk[1] * si[2] \/ (si[1] * sk[2] = sk[1] * si[2] /\ i <= k)
  IN items[CHOOSE i \in top : \A k \in top : better(i, k)]

afterWebsiteNameSearch(S, id, r) ==
  LET l == S.proc[id]
      S1 == IF r.kind = "error" THEN PushStep(S, id, "Company Search Error")
            ELSE IF r.items = <<>> THEN S
            ELSE LET bestMatch == bestOfTopThree(r.items, l.site_name)
                     S2 == PushStep(S, id, "Companies House Search Results")
                 IN IF /\ Above(calculateNameSimilarity(l.site_name, bestMatch.title),
                                AlternativeSimilarityTenths)
                       /\ bestMatch.company_number /= l.crn
                    THEN PushStep(S2, id, "CRN Verification Alert")
                    ELSE S2
  IN Suspend(S1, id, [l EXCEPT !.pc = "ai_verification"])

\* a differing CRN makes the code touch `result` before its declaration; the
\* ReferenceError is caught and logged as 'AI Verification Error'
afterAiVerification(S, id, a) ==
  LET S1 == PushStep(S, id, "AI Verification")
      S2 == IF a.crn /= Null /\ a.crn /= S.proc[id].crn
            THEN PushStep(S1, id, "AI Verification Error")
            ELSE S1
  IN afterNameCheck(S2, id)

\* ------------------------------------------------- kybTask, stage by stage
\* A completion without content leaves aiText null: JSON.parse(null) gives
\* null, reading .crn of it throws inside the parse try, and aiText.match in
\* that catch block throws the TypeError that reaches the outer catch.
NullMatchError == [message |-> "Cannot read properties of null (reading 'match')"]

\* the error of a request that failed, as the variants below rethrow it
RequestError == [message |-> "Request failed"]

\* a variant of kybTaskFails that marks the job failed without logging the error
kybTaskFails_notLogged(S, id, err) ==
  ProcessorReturns(SetStatus(S, id, "failed"), id)

\* the outer catch of kybTask
kybTaskFails(S, id, err) ==
  ProcessorReturns(
    Push(SetStatus(S, id, "failed"), id, [Entry("Error") EXCEPT !.error = err.message]), id)

toFinalVerification(S, id, crn) ==
  Suspend(S, id, [S.proc[id] EXCEPT !.pc = "verify_crn", !.crn = crn])

toSecondAi(S, id) ==
  Suspend(PushStep(S, id, "CRN Second Attempt"), id,
          [S.proc[id] EXCEPT !.pc = "second_ai", !.crn = Null])

toRegistrySearch(S, id) ==
  Suspend(PushStep(S, id, "CRN Fallback"), id,
          [S.proc[id] EXCEPT !.pc = "registry_search", !.crn = Null])

\* a variant of kybTask that does not mark the job as processing
kybTask_staysPending(S, job) ==
  Suspend(S, job.id, [Idle EXCEPT !.pc = "first_ai", !.business_name = job.business_name])

kybTask(S, job) ==
  Suspend(SetStatus(S, job.id, "processing"), job.id,
          [Idle EXCEPT !.pc = "first_ai", !.business_name = job.business_name])

afterFirstAi(S, id, a) ==
  LET S1 == IF a.kind = "error" THEN PushStep(S, id, "GPT Error") ELSE S
      S2 == PushStep(S1, id, "CRN Search Result")
  IN CASE a.kind = "null_content" -> kybTaskFails(S2, id, NullMatchError)
       [] a.kind = "json" /\ a.crn /= Null ->
            Suspend(PushStep(S2, id, "CRN Verification"), id,
                    [S.proc[id] EXCEPT !.pc = "check_ai_crn", !.crn = a.crn])
       [] a.kind \in {"text_label", "text_generic"} -> toFinalVerification(S2, id, a.crn)
       [] OTHER -> toRegistrySearch(S2, id)

\* true when the registry's name for the candidate is too far from the request
wrongCompany(r, business_name) ==
  /\ r.kind = "ok"
  /\ r.company_name /= Null
  /\ Below(calculateNameSimilarity(toLowerCase(r.company_name), toLowerCase(business_name)),
           RejectSimilarityTenths)

afterAiCrnCheck(S, id, r) ==
  IF wrongCompany(r, S.proc[id].business_name)
  THEN toRegistrySearch(PushStep(S, id, "CRN Verification Failed"), id)
  ELSE toFinalVerification(S, id, S.proc[id].crn)

activeCompanies(items, business_name) ==
  SelectSeq(items, LAMBDA item :
    /\ item.company_status = "active"
    /\ Above(calculateNameSimilarity(toLowerCase(item.title), toLowerCase(business_name)),
             SearchSimilarityTenths))

afterRegistrySearch(S, id, r) ==
  IF r.kind = "error" THEN toSecondAi(PushStep(S, id, "Companies House Search Failed"), id)
  ELSE LET matches == activeCompanies(r.items, S.proc[id].business_name)
       IN IF matches = <<>> THEN toSecondAi(S, id)
          ELSE Suspend(S, id, [S.proc[id] EXCEPT !.pc = "check_search_crn",
                                                 !.crn = matches[1].company_number])

afterSearchCrnCheck(S, id, r) ==
  IF wrongCompany(r, S.proc[id].business_name)
  THEN toSecondAi(PushStep(S, id, "Search Result Verification Failed"), id)
  ELSE LET S1 == IF r.kind = "ok" /\ r.company_name /= Null
                 THEN PushStep(S, id, "Companies House Search Result") ELSE S
       IN toFinalVerification(S1, id, S.proc[id].crn)

\* a variant of afterSecondAi that fails the job when the request fails
afterSecondAi_errorFailsJob(S, id, a) ==
  IF a.kind = "error" THEN kybTaskFails(S, id, RequestError)
  ELSE IF a.crn = Null
       THEN ProcessorReturns(
              RequireAction(S, id, "Action Required", {"crn", "website", "company_name"}), id)
       ELSE toFinalVerification(S, id, a.crn)

afterSecondAi(S, id, a) ==
  LET S1 == CASE a.kind = "error" -> PushStep(S, id, "Second AI Attempt Failed")
              [] a.kind \in {"negative", "crn"} -> PushStep(S, id, "Second AI Attempt")
              [] OTHER -> S
  IN IF a.crn = Null
     THEN ProcessorReturns(
            RequireAction(S1, id, "Action Required", {"crn", "website", "company_name"}), id)
     ELSE toFinalVerification(S1, id, a.crn)

afterCrnVerification(S, id, r) ==
  LET business_name == S.proc[id].business_name
      nameSimilarity ==
        calculateNameSimilarity(toLowerCase(r.company_name), toLowerCase(business_name))
  IN CASE r.kind /= "ok" ->
            ProcessorReturns(RequireAction(S, id, "CRN Verification Error", {"crn"}), id)
       [] r.kind = "ok" /\ r.company_status /= "active" ->
            ProcessorReturns(RequireAction(S, id, "Company Status Error", {"crn"}), id)
       [] r.kind = "ok" /\ r.company_status = "active" /\ r.company_name = Null ->
            ProcessorReturns(RequireAction(S, id, "CRN Verification Error", {"crn"}), id)
       [] OTHER ->
            IF Below(nameSimilarity, ConfirmCompanyTenths)
            THEN LET S1 == PushStep(S, id, "Company Name Verification")
                 IN IF Below(nameSimilarity, WrongCompanyTenths)
                    THEN ProcessorReturns(
                           RequireAction(S1, id, "Wrong Company Detected", {"crn"}), id)
                    ELSE ProcessorReturns(
                           RequireAction(S1, id, "Action Required", {"confirm_company"}), id)
            ELSE Suspend(S, id, [S.proc[id] EXCEPT !.pc = "website_ai"])

afterWebsiteAi(S, id, a) ==
  LET l == S.proc[id]
      S1 == IF a.kind = "error" THEN PushStep(S, id, "Website Search Error") ELSE S
      S2 == PushStep(S1, id, "Website Search Result")
  IN IF a.kind = "null_content"
     THEN ProcessorReturns(RequireAction(S2, id, "CRN Verification Error", {"crn"}), id)
     ELSE LET S3 == IF a.kind = "json" /\ a.website /= Null
                    THEN PushStep(S2, id, "Website Verification") ELSE S2
          IN processCRN(S3, id, l.business_name, l.crn, a.website)

\* a variant of askForCrn that fails the job instead of asking again
askForCrn_failsJob(S, id) == kybTaskFails(S, id, RequestError)

\* --------------------------------------------- kybContinue, stage by stage
askForCrn(S, id) == ProcessorReturns(RequireAction(S, id, "Action Required", {"crn"}), id)

restartAiFails(S, id) == askForCrn(PushStep(S, id, "GPT Error"), id)

\* a variant of kybContinue that restarts whenever a company name is supplied
kybContinue_nameWins(S, job) ==
  LET id == job.id
      d == job.additionalData
      S1 == SetStatus(S, id, "processing")
  IN IF d.company_name /= Null
     THEN restartAiFails(PushStep(S1, id, "Process Restarted"), id)
     ELSE IF d.crn /= Null THEN processCRN(S1, id, job.business_name, d.crn, d.website)
     ELSE askForCrn(S1, id)

\* The restart branch calls openai.createChatCompletion.  The client built at
\* line 57 (new OpenAI) has no such method (its calls are chat.completions.create,
\* lines 644, 877, 1076), so the call throws a TypeError before any request is
\* made and the branch's outer catch runs: 'GPT Error', then 'Action Required'.
kybContinue(S, job) ==
  LET id == job.id
      d == job.additionalData
      S1 == SetStatus(S, id, "processing")
  IN IF d.company_name /= Null /\ d.crn = Null
     THEN restartAiFails(PushStep(S1, id, "Process Restarted"), id)
     ELSE IF d.crn /= Null THEN processCRN(S1, id, job.business_name, d.crn, d.website)
     ELSE askForCrn(S1, id)

\* ------------------------------------------------------------ the worker
\* a variant of processNextJob that never raises the isProcessing flag
processNextJob_flagNeverSet(S) ==
  IF S.isProcessing \/ S.jobQueue = <<>> THEN S
  ELSE LET next == shift(S.jobQueue)
           job == next.item
           S1 == [S EXCEPT !.jobQueue = next.rest,
                           !.startOrder = Append(@, job.ticket)]
       IN IF job.type = "kybTask" THEN kybTask(S1, job)
          ELSE kybContinue(S1, job)

processNextJob(S) ==
  IF S.isProcessing \/ S.jobQueue = <<>> THEN S
  ELSE LET next == shift(S.jobQueue)
           job == next.item
           S1 == [S EXCEPT !.isProcessing = TRUE, !.jobQueue = next.rest,
                           !.startOrder = Append(@, job.ticket)]
       IN IF job.type = "kybTask" THEN kybTask(S1, job)
          ELSE kybContinue(S1, job)

\* ---------------------------------------------------------- HTTP handlers
QueueItem(id, type, business_name, additionalData) ==
  [id |-> id, type |-> type, business_name |-> business_name,
   additionalData |-> additionalData, ticket |-> 0]

\* index of the first entry with the given step, 0 if there is none
FindStep(log, step) ==
  LET hits == {i \in 1..Len(log) : log[i].step = step}
  IN IF hits = {} THEN 0 ELSE CHOOSE i \in hits : \A k \in hits : i <= k

\* required_fields as both readers compute it; {} stands for null
requiredFieldsOf(log) ==
  LET i == FindStep(log, "Action Required")
  IN IF i = 0 THEN {} ELSE log[i].required_fields

\* a variant of calculateJobProgress without the cap of a processing job
calculateJobProgress_uncapped(status, logSteps) ==
  CASE status = "pending" -> 0
    [] status = "processing" -> (logSteps * 100 + 5) \div 10
    [] status = "action_required" -> 50
    [] status = "completed" -> 100
    [] status = "failed" -> Min2((logSteps * 100 + 5) \div 10, 100)
    [] OTHER -> 0

calculateJobProgress(status, logSteps) ==
  CASE status = "pending" -> 0
    [] status = "processing" -> Min2((logSteps * 100 + 5) \div 10, 90)
    [] status = "action_required" -> 50
    [] status = "completed" -> 100
    [] status = "failed" -> Min2((logSteps * 100 + 5) \div 10, 100)
    [] OTHER -> 0

jobStatusResponse(id) ==
  [status |-> jobStatus[id],
   total_steps_completed |-> Len(jobLogs[id]),
   requires_action |-> jobStatus[id] = "action_required",
   required_fields |-> requiredFieldsOf(jobLogs[id]),
   percent_complete |-> calculateJobProgress(jobStatus[id], Len(jobLogs[id]))]

jobLogResponse(id) ==
  [status |-> jobStatus[id],
   log_entries |-> jobLogs[id],
   total_steps |-> Len(jobLogs[id]),
   percent_complete |-> calculateJobProgress(jobStatus[id], Len(jobLogs[id])),
   requires_action |-> jobStatus[id] = "action_required",
   required_fields |-> requiredFieldsOf(jobLogs[id]),
   is_complete |-> jobResult[id] /= NoResult,
   result |-> jobResult[id]]

BusinessNames == {NameRequested}

ContinueInputs ==
  {[NoData EXCEPT !.crn = c, !.company_name = n, !.website = w] :
     c \in {Null, CrnGood, CrnShort}, n \in {Null, NameCorrected}, w \in {Null, SiteUrl}}
  \cup {[NoData EXCEPT !.confirm_company = ConfirmYes]}

Frame == UNCHANGED <<network, jobLimit, continueLimit, call>>

\* the status code each handler answers with
startKYBCode(business_name) == IF business_name = Null THEN 400 ELSE 200

readerCode(job_id) == IF jobStatus[job_id] = "none" THEN 404 ELSE 200

\* a variant of continueKYBCode that also accepts finished jobs
continueKYBCode_finishedAccepted(job_id) ==
  IF job_id = 0 THEN 400
  ELSE IF jobStatus[job_id] = "none" THEN 404
  ELSE IF jobStatus[job_id] \in {"pending", "processing"} THEN 400
  ELSE 200

\* a variant of continueKYBCode without the status check
continueKYBCode_noStatusCheck(job_id) ==
  IF job_id = 0 THEN 400
  ELSE IF jobStatus[job_id] = "none" THEN 404
  ELSE 200

\* a variant of continueKYBCode that also accepts a job that is being processed
continueKYBCode_runningAccepted(job_id) ==
  IF job_id = 0 THEN 400
  ELSE IF jobStatus[job_id] = "none" THEN 404
  ELSE IF jobStatus[job_id] \notin {"action_required", "processing"} THEN 400
  ELSE 200

continueKYBCode(job_id) ==
  IF job_id = 0 THEN 400
  ELSE IF jobStatus[job_id] = "none" THEN 404
  ELSE IF jobStatus[job_id] /= "action_required" THEN 400
  ELSE 200

\* a variant of StartKYB that queues the job without waking the worker
StartKYB_workerNotWoken(business_name) ==
  /\ Frame
  /\ IF startKYBCode(business_name) /= 200
     THEN UNCHANGED <<jobStatus, jobLogs, jobResult, jobQueue, isProcessing, proc, nextJobId,
                      continues, transitions, nextTicket, startOrder>>
     ELSE /\ nextJobId <= jobLimit
          /\ LET jobId == nextJobId
                 S1 == [State EXCEPT
                          !.jobStatus[jobId] = "pending",
                          !.jobLogs[jobId] =
                             <<[Entry("Original Request") EXCEPT
                                  !.data.business_name = business_name]>>]
             IN Becomes(Enqueue(S1, QueueItem(jobId, "kybTask", business_name, NoData)))
          /\ nextJobId' = nextJobId + 1
          /\ UNCHANGED continues

\* POST /startKYB
StartKYB(business_name) ==
  /\ Frame
  /\ IF startKYBCode(business_name) /= 200
     THEN UNCHANGED <<jobStatus, jobLogs, jobResult, jobQueue, isProcessing, proc, nextJobId,
                      continues, transitions, nextTicket, startOrder>>
     ELSE /\ nextJobId <= jobLimit
          /\ LET jobId == nextJobId
                 S1 == [State EXCEPT
                          !.jobStatus[jobId] = "pending",
                          !.jobLogs[jobId] =
                             <<[Entry("Original Request") EXCEPT
                                  !.data.business_name = business_name]>>]
                 S2 == Enqueue(S1, QueueItem(jobId, "kybTask", business_name, NoData))
             IN Becomes(IF ~S2.isProcessing THEN processNextJob(S2) ELSE S2)
          /\ nextJobId' = nextJobId + 1
          /\ UNCHANGED continues

\* GET /jobStatus: answers jobStatusResponse(job_id), or 404
JobStatus(job_id) == UNCHANGED vars

\* a variant of JobLog that stores its sanitised copies back into the log
JobLog_storesCopies(job_id) ==
  /\ jobLogs' = [jobLogs EXCEPT ![job_id] =
                   [k \in DOMAIN @ |->
                      IF @[k].error /= "" THEN [@[k] EXCEPT !.error = "Unknown error"]
                      ELSE @[k]]]
  /\ UNCHANGED <<jobStatus, jobResult, jobQueue, isProcessing, proc, nextJobId, continues,
                 network, jobLimit, continueLimit, transitions, nextTicket, startOrder, call>>

\* GET /jobLog: answers jobLogResponse(job_id), or 404
JobLog(job_id) == UNCHANGED vars

\* a variant of ContinueKYB that leaves the job's status at action_required
ContinueKYB_statusNotSet(job_id) ==
  /\ Frame
  /\ IF continueKYBCode(job_id) /= 200
     THEN UNCHANGED <<jobStatus, jobLogs, jobResult, jobQueue, isProcessing, proc, nextJobId,
                      continues, transitions, nextTicket, startOrder>>
     ELSE /\ continues < continueLimit
          /\ \E additionalData \in ContinueInputs :
               LET S1 == Push(State, job_id,
                              [Entry("Additional Information") EXCEPT
                                 !.data = additionalData])
                   i == FindStep(S1.jobLogs[job_id], "Original Request")
                   businessName ==
                     IF i = 0 THEN Null ELSE S1.jobLogs[job_id][i].data.business_name
                   S3 == Enqueue(S1, QueueItem(job_id, "kybContinue", businessName,
                                               additionalData))
               IN Becomes(IF ~S3.isProcessing THEN processNextJob(S3) ELSE S3)
          /\ continues' = continues + 1
          /\ UNCHANGED nextJobId

\* POST /continueKYB; job_id 0 stands for a request without job_id
ContinueKYB(job_id) ==
  /\ Frame
  /\ IF continueKYBCode(job_id) /= 200
     THEN UNCHANGED <<jobStatus, jobLogs, jobResult, jobQueue, isProcessing, proc, nextJobId,
                      continues, transitions, nextTicket, startOrder>>
     ELSE /\ continues < continueLimit
          /\ \E additionalData \in ContinueInputs :
               LET S1 == Push(State, job_id,
                              [Entry("Additional Information") EXCEPT
                                 !.data = additionalData])
                   S2 == SetStatus(S1, job_id, "processing")
                   i == FindStep(S2.jobLogs[job_id], "Original Request")
                   businessName ==
                     IF i = 0 THEN Null ELSE S2.jobLogs[job_id][i].data.business_name
                   S3 == Enqueue(S2, QueueItem(job_id, "kybContinue", businessName,
                                               additionalData))
               IN Becomes(IF ~S3.isProcessing THEN processNextJob(S3) ELSE S3)
          /\ continues' = continues + 1
          /\ UNCHANGED nextJobId

\* ------------------------------------------ completions of external calls
\* the answers an external call can get under the workload's network
Failures(answers) == {a \in answers : a.kind \in {"error", "timeout"}}

AiAnswers(answers) == IF network = "up" THEN answers ELSE Failures(answers)

LookupAnswers(answers) ==
  CASE network = "up" -> answers
    [] network = "ai_down" -> answers \cap {RegistryOk("active", NameSame)}
    [] OTHER -> Failures(answers)

NameSearchAnswers(answers) ==
  CASE network = "up" -> answers
    [] network = "ai_down" ->
         answers \cap {SearchOk(<<SearchItem(NameSame, CrnGood, "active")>>)}
    [] OTHER -> Failures(answers)

WebAnswers(answers) ==
  IF network = "up" THEN answers
  ELSE answers \cap {scrapeFailed}

\* the processor of job id resumes from the call it is suspended in
Resume(id, pc, S) ==
  /\ proc[id].pc = pc
  /\ Becomes(S)
  /\ UNCHANGED <<nextJobId, continues>>
  /\ Frame

FirstAiReply(id) == \E a \in AiAnswers(FirstAiAnswers) : Resume(id, "first_ai", afterFirstAi(State, id, a))

AiCrnCheckReply(id) ==
  \E r \in LookupAnswers(CandidateCheckAnswers) : Resume(id, "check_ai_crn", afterAiCrnCheck(State, id, r))

RegistrySearchReply(id) ==
  \E r \in NameSearchAnswers(SearchAnswers) : Resume(id, "registry_search", afterRegistrySearch(State, id, r))

SearchCrnCheckReply(id) ==
  \E r \in LookupAnswers(CandidateCheckAnswers) : Resume(id, "check_search_crn", afterSearchCrnCheck(State, id, r))

SecondAiReply(id) == \E a \in AiAnswers(SecondAiAnswers) : Resume(id, "second_ai", afterSecondAi(State, id, a))

CrnVerificationReply(id) ==
  \E r \in LookupAnswers(VerificationAnswers) : Resume(id, "verify_crn", afterCrnVerification(State, id, r))

WebsiteAiReply(id) ==
  \E a \in AiAnswers(WebsiteAiAnswers) : Resume(id, "website_ai", afterWebsiteAi(State, id, a))



ProfileReply(id) == \E r \in LookupAnswers(ProfileAnswers) : Resume(id, "profile", afterProfile(State, id, r))

OfficersReply(id) == Resume(id, "officers", afterOfficers(State, id))

PscReply(id) == Resume(id, "psc", afterPsc(State, id))

DocumentReply(id) == Resume(id, "document", afterDocument(State, id))

ScrapeReply(id) == \E w \in WebAnswers(ScrapeAnswers) : Resume(id, "scrape", afterScrape(State, id, w))

WebsiteNameSearchReply(id) ==
  \E r \in NameSearchAnswers(WebsiteNameSearchAnswers) :
    Resume(id, "search_website_name", afterWebsiteNameSearch(State, id, r))

AiVerificationReply(id) ==
  \E a \in AiAnswers(VerifyAiAnswers) : Resume(id, "ai_verification", afterAiVerification(State, id, a))

\* ------------------------------------------------------------ the system
\* the maps, the queue and the worker flag as the module leaves them when loaded
ServiceStart ==
  /\ jobStatus = [id \in JobIds |-> "none"]
  /\ jobLogs = [id \in JobIds |-> <<>>]
  /\ jobResult = [id \in JobIds |-> NoResult]
  /\ jobQueue = <<>>
  /\ isProcessing = FALSE
  /\ proc = [id \in JobIds |-> Idle]
  /\ nextJobId = 1
  /\ continues = 0
  /\ \E w \in Workloads :
       /\ network = w.network
       /\ jobLimit = w.jobLimit
       /\ continueLimit = w.continueLimit
  /\ transitions = {}
  /\ nextTicket = 1
  /\ startOrder = <<>>

Init == ServiceStart /\ call = NoCall

Next ==
  \/ \E n \in BusinessNames \cup {Null} : StartKYB(n)
  \/ \E id \in JobIds : JobStatus(id)
  \/ \E id \in JobIds : JobLog(id)
  \/ \E id \in JobIds \cup {0} : ContinueKYB(id)
  \/ \E id \in JobIds : FirstAiReply(id)
  \/ \E id \in JobIds : AiCrnCheckReply(id)
  \/ \E id \in JobIds : RegistrySearchReply(id)
  \/ \E id \in JobIds : SearchCrnCheckReply(id)
  \/ \E id \in JobIds : SecondAiReply(id)
  \/ \E id \in JobIds : CrnVerificationReply(id)
  \/ \E id \in JobIds : WebsiteAiReply(id)
  \/ \E id \in JobIds : ProfileReply(id)
  \/ \E id \in JobIds : OfficersReply(id)
  \/ \E id \in JobIds : PscReply(id)
  \/ \E id \in JobIds : DocumentReply(id)
  \/ \E id \in JobIds : ScrapeReply(id)
  \/ \E id \in JobIds : WebsiteNameSearchReply(id)
  \/ \E id \in JobIds : AiVerificationReply(id)

Spec == Init /\ [][Next]_vars

\* the external calls a processor can be waiting in
CallSites ==
  {"first_ai", "check_ai_crn", "registry_search", "check_search_crn", "second_ai",
   "verify_crn", "website_ai", "profile", "officers", "psc", "document", "scrape",
   "search_website_name", "ai_verification"}

\* Every external call eventually returns or fails: no processor waits in a
\* call forever.  One processor runs at a time, so a call that has been
\* answered leaves its call site without any waiting processor.
CallsReturn == \A p \in CallSites : []<>(\A id \in JobIds : proc[id].pc /= p)

FairSpec == Spec /\ CallsReturn

\* The calls made without any timeout: the registry name searches (axios.get
\* without a timeout option, lines 775 and 1655) and the two requests of
\* downloadIncorporationDocument (lines 574, 580).  The other registry calls
\* and the website fetch pass a timeout to axios.  The AI requests arm a
\* 30-second AbortController whose signal is never handed to the request
\* (lines 640-652), so the timer abandons nothing; they are counted here as
\* returning, bounded by the client library alone.
UntimedCallSites == {"registry_search", "search_website_name", "document"}

\* a call made with a timeout returns, by an answer or by the timeout; a call
\* made without one may wait forever
TimedCallsReturn ==
  \A p \in CallSites \ UntimedCallSites : []<>(\A id \in JobIds : proc[id].pc /= p)

TimeoutSpec == Spec /\ TimedCallsReturn

\* ------------------------------------------- the pure helpers, on their own
\* The helpers are exercised apart from the service: the service stays as it
\* was loaded, an input is drawn at the start, and the helper is applied to it
\* up to MaxCalls times, every answer being recorded.
DigitRun(n) == SubSeq(<<"1", "2", "3", "4", "5", "6", "7", "8", "9", "0">>, 1, n)

CrnPrefixes ==
  {<<>>, <<"S", "C">>, <<"N", "I">>, <<"O", "C">>, <<"s", "c">>, <<"S">>, <<"C", "S">>,
   <<"S", "C", "O">>, <<" ">>}

CrnTails ==
  {DigitRun(n) : n \in 0..MaxDigits}
  \cup {<<"0", "0", "0", "0", "0", "0", "0", "0">>,
        <<"1", "2", "3", "4", "5", "6", "7", "A">>,
        <<"1", "2", "3", "4", " ", "5", "6", "7">>,
        <<"1", "2", "3", "4", "5", "6", "7", "8", " ">>}

CrnStrings == {p \o t : p \in CrnPrefixes, t \in CrnTails}

CrnCalls == {[fn |-> "validateCRNFormat", crn |-> c, answers |-> <<>>] : c \in CrnStrings}

Statuses == {"pending", "processing", "action_required", "completed", "failed", "unknown"}

ProgressCalls ==
  {[fn |-> "calculateJobProgress", status |-> s, logSteps |-> n, answers |-> <<>>] :
     s \in Statuses, n \in 0..MaxSteps}

\* names given to the similarity routines: plain ones, ones that differ in
\* case, punctuation or a legal word, and ones that normalise to nothing
SimilarityStrings ==
  {<<>>, <<" ">>, <<".">>, <<"l", "t", "d">>, <<"u", "k">>, <<"a">>, <<"A">>, <<"b">>,
   <<"a", "b">>, <<"b", "a">>, <<"a", ".">>, <<"a", " ", "b">>, <<"a", "b", "c">>,
   <<"a", " ", "l", "t", "d">>, <<"L", "t", "d", ".">>, <<"a", "b", "x", "y">>}

SimilarityRoutines == {"calculateNameSimilarity", "calculateStringSimilarity"}

SimilarityCalls ==
  {[fn |-> f, a |-> a, b |-> b, answers |-> <<>>] :
     f \in SimilarityRoutines, a \in SimilarityStrings, b \in SimilarityStrings}

PureCalls == CrnCalls \cup ProgressCalls \cup SimilarityCalls

InitPure == ServiceStart /\ call \in PureCalls

ValidateCRN ==
  /\ call.fn = "validateCRNFormat"
  /\ Len(call.answers) < MaxCalls
  /\ call' = [call EXCEPT !.answers = Append(@, validateCRNFormat(call.crn))]
  /\ UNCHANGED serviceVars

CalculateJobProgress ==
  /\ call.fn = "calculateJobProgress"
  /\ Len(call.answers) < MaxCalls
  /\ call' = [call EXCEPT !.answers =
                 Append(@, calculateJobProgress(call.status, call.logSteps))]
  /\ UNCHANGED serviceVars

similarity(fn, a, b) ==
  IF fn = "calculateNameSimilarity" THEN calculateNameSimilarity(a, b)
  ELSE calculateStringSimilarity(a, b)

\* the routine is applied to the pair in both orders and to the first name
\* with itself
CalculateSimilarity ==
  /\ call.fn \in SimilarityRoutines
  /\ Len(call.answers) < MaxCalls
  /\ call' = [call EXCEPT !.answers =
                 Append(@, [ab |-> similarity(call.fn, call.a, call.b),
                            ba |-> similarity(call.fn, call.b, call.a),
                            aa |-> similarity(call.fn, call.a, call.a)])]
  /\ UNCHANGED serviceVars

NextPure ==
  \/ ValidateCRN
  \/ CalculateJobProgress
  \/ CalculateSimilarity

SpecPure == InitPure /\ [][NextPure]_vars

\* ------------------------------------------ GET /findWebsite (server.js)
\* String.prototype.includes; every string includes the empty string
Includes(s, w) == \E i \in 1..(Len(s) + 1) : StartsWithAt(s, i, w)

EndsWith(s, w) == Len(w) <= Len(s) /\ SubSeq(s, Len(s) - Len(w) + 1, Len(s)) = w

\* position of the first occurrence of character c in s at or after i, else
\* one past the end
RECURSIVE IndexFrom(_, _, _)
IndexFrom(s, c, i) ==
  IF i > Len(s) THEN Len(s) + 1
  ELSE IF s[i] = c THEN i ELSE IndexFrom(s, c, i + 1)

AlnumChars == LowerLetters \cup Digits

\* split(/[^a-z0-9]+/).filter(Boolean): the maximal runs of a-z0-9
RECURSIVE tokensOf(_, _, _, _)
tokensOf(s, i, word, acc) ==
  IF i > Len(s) THEN (IF word = <<>> THEN acc ELSE Append(acc, word))
  ELSE IF s[i] \in AlnumChars THEN tokensOf(s, i + 1, Append(word, s[i]), acc)
  ELSE tokensOf(s, i + 1, <<>>, IF word = <<>> THEN acc ELSE Append(acc, word))

RECURSIVE joined(_, _)
joined(words, i) == IF i > Len(words) THEN <<>> ELSE words[i] \o joined(words, i + 1)

\* replace(/[^a-z0-9]/g, ''): only a-z0-9 are kept
keepAlnum(s) == SelectSeq(s, LAMBDA c : c \in AlnumChars)

HttpsPrefix == <<"h", "t", "t", "p", "s", ":", "/", "/">>
WwwPrefix == <<"w", "w", "w", ".">>

\* new URL(url).hostname and the number of non-empty segments of its pathname,
\* for an https url without port, query or fragment
hostnameOf(url) ==
  LET rest == SubSeq(url, Len(HttpsPrefix) + 1, Len(url))
  IN SubSeq(rest, 1, IndexFrom(rest, "/", 1) - 1)

pathnameOf(url) ==
  LET rest == SubSeq(url, Len(HttpsPrefix) + 1, Len(url))
  IN SubSeq(rest, IndexFrom(rest, "/", 1), Len(rest))

\* replace(/^www\./, '')
withoutWww(hostname) ==
  IF StartsWithAt(hostname, 1, WwwPrefix)
  THEN SubSeq(hostname, Len(WwwPrefix) + 1, Len(hostname)) ELSE hostname

\* path.split('/').filter(Boolean).length
RECURSIVE pathDepthOf(_, _, _)
pathDepthOf(path, i, inSegment) ==
  IF i > Len(path) THEN 0
  ELSE IF path[i] = "/" THEN pathDepthOf(path, i + 1, FALSE)
  ELSE (IF inSegment THEN 0 ELSE 1) + pathDepthOf(path, i + 1, TRUE)

UkScoreWords == {<<"u", "k">>, <<"b", "r", "i", "t", "i", "s", "h">>, <<"e", "n", "g", "l", "a", "n", "d">>}

DirectoryTerms ==
  {<<"d", "i", "r", "e", "c", "t", "o", "r", "y">>, <<"l", "i", "s", "t">>,
   <<"b", "u", "s", "i", "n", "e", "s", "s", "e", "s">>,
   <<"c", "o", "m", "p", "a", "n", "i", "e", "s">>, <<"f", "i", "n", "d">>,
   <<"s", "e", "a", "r", "c", "h">>}

PenalizeTerms ==
  {<<"l", "i", "n", "k", "e", "d", "i", "n">>, <<"f", "a", "c", "e", "b", "o", "o", "k">>,
   <<"i", "n", "s", "t", "a", "g", "r", "a", "m">>,
   <<"t", "w", "i", "t", "t", "e", "r">>, <<"y", "e", "l", "p">>,
   <<"t", "r", "u", "s", "t", "p", "i", "l", "o", "t">>,
   <<"c", "o", "m", "p", "a", "n", "i", "e", "s", " ", "h", "o", "u", "s", "e">>}

Indicator(b) == IF b THEN 1 ELSE 0

RECURSIVE presentTokenLength(_, _, _)
presentTokenLength(tokens, host, i) ==
  IF i > Len(tokens) THEN 0
  ELSE (IF Includes(host, tokens[i]) THEN Len(tokens[i]) ELSE 0)
       + presentTokenLength(tokens, host, i + 1)

\* the score of one result, times 2 * (length of the joined tokens) so that
\* the halves and the token fractions are whole numbers; the scale is 2 when
\* the name has no token, and then no token adds any point
scoreOf(result, normalizedCompanyName) ==
  LET companyNameTokens == tokensOf(normalizedCompanyName, 1, <<>>, <<>>)
      noSpaceCompanyName == joined(companyNameTokens, 1)
      total == Max2(Len(noSpaceCompanyName), 1)
      hostname == toLowerCase(hostnameOf(result.url))
      hostnameWithoutWWW == withoutWww(hostname)
      domainName == SubSeq(hostnameWithoutWWW, 1, IndexFrom(hostnameWithoutWWW, ".", 1) - 1)
      pathDepth == pathDepthOf(toLowerCase(pathnameOf(result.url)), 1, FALSE)
      points ==
        100 * Indicator(Includes(domainName, noSpaceCompanyName))
        + 100 * Indicator(domainName = keepAlnum(normalizedCompanyName))
        + 50 * Indicator(\A k \in DOMAIN companyNameTokens :
                           Includes(hostnameWithoutWWW, companyNameTokens[k]))
        - 5 * pathDepth
        + 10 * Indicator(EndsWith(hostname, <<".", "c", "o", "m">>)
                         \/ EndsWith(hostname, <<".", "c", "o", ".", "u", "k">>))
        + 15 * Indicator((\E w \in UkScoreWords : Includes(normalizedCompanyName, w))
                         /\ EndsWith(hostname, <<".", "c", "o", ".", "u", "k">>))
        + 10 * Indicator(Includes(toLowerCase(result.title),
                                  <<"o", "f", "f", "i", "c", "i", "a", "l">>))
        - 30 * Indicator(\E t \in DirectoryTerms : Includes(hostname, t))
        - 100 * Indicator(\E t \in PenalizeTerms : Includes(hostname, t))
  IN 2 * total * points
     + 40 * presentTokenLength(companyNameTokens, hostnameWithoutWWW, 1)
     - total * Len(hostnameWithoutWWW)

\* scoreWebsiteResults(results, name)[0]: the sort is stable, so the first of
\* the results of highest score
bestResult(results, normalizedCompanyName) ==
  LET score(k) == scoreOf(results[k], normalizedCompanyName)
  IN results[CHOOSE k \in DOMAIN results :
               \A j \in DOMAIN results :
                 score(k) > score(j) \/ (score(k) = score(j) /\ k <= j)]

\* the filter that keeps the first result of every hostname, www. ignored
RECURSIVE uniqueByHostname(_, _, _)
uniqueByHostname(results, i, seen) ==
  IF i > Len(results) THEN <<>>
  ELSE LET hostname == withoutWww(hostnameOf(results[i].url))
       IN IF hostname \in seen THEN uniqueByHostname(results, i + 1, seen)
          ELSE <<results[i]>> \o uniqueByHostname(results, i + 1, seen \cup {hostname})

companyNameSlug(company_name) == keepAlnum(toLowerCase(company_name))

UkWords ==
  {<<"u", "k">>, <<"u", "n", "i", "t", "e", "d", " ", "k", "i", "n", "g", "d", "o", "m">>,
   <<"b", "r", "i", "t", "a", "i", "n">>, <<"e", "n", "g", "l", "a", "n", "d">>,
   <<"s", "c", "o", "t", "l", "a", "n", "d">>, <<"w", "a", "l", "e", "s">>,
   <<"g", "y", "m">>, <<"f", "i", "t", "n", "e", "s", "s">>}

isUkCompany(company_name) == \E w \in UkWords : Includes(toLowerCase(company_name), w)

domains(company_name) ==
  IF isUkCompany(company_name)
  THEN <<<<".", "c", "o", ".", "u", "k">>, <<".", "u", "k">>, <<".", "c", "o", "m">>,
         <<".", "o", "r", "g">>, <<".", "n", "e", "t">>, <<".", "i", "o">>>>
  ELSE <<<<".", "c", "o", "m">>, <<".", "o", "r", "g">>, <<".", "n", "e", "t">>,
         <<".", "i", "o">>, <<".", "c", "o", ".", "u", "k">>, <<".", "u", "k">>>>

domainGuesses(company_name) ==
  [k \in DOMAIN domains(company_name) |->
     HttpsPrefix \o WwwPrefix \o companyNameSlug(company_name) \o domains(company_name)[k]]

NoResponse == [status |-> 0, website |-> Null, source |-> ""]

Responds(website, source) == [status |-> 200, website |-> website, source |-> source]

\* the company_name query values: missing or empty, plain, with an upper-case
\* letter and a space, with a word that marks a UK company, without any
\* letter or digit
WebNames ==
  {Null, <<"a", "b">>, <<"A", " ", "b">>, <<"a", "b", " ", "u", "k">>, <<"!">>}

SearchResult(url, title) == [url |-> url, title |-> title, searchTerm |-> 0]

SiteCom == SearchResult(<<"h", "t", "t", "p", "s", ":", "/", "/", "w", "w", "w", ".", "a", "b", ".", "c", "o", "m", "/">>, <<"a", "b">>)
SiteComPage == SearchResult(<<"h", "t", "t", "p", "s", ":", "/", "/", "a", "b", ".", "c", "o", "m", "/", "x">>, <<"o", "f", "f", "i", "c", "i", "a", "l">>)
SiteUk ==
  SearchResult(<<"h", "t", "t", "p", "s", ":", "/", "/", "a", "b", ".", "c", "o", ".", "u", "k", "/", "a", "/", "b">>,
               <<"o", "f", "f", "i", "c", "i", "a", "l">>)
SiteList == SearchResult(<<"h", "t", "t", "p", "s", ":", "/", "/", "f", "i", "n", "d", ".", "c", "o", "m", "/", "a", "b">>, Null)

\* what directWebSearch resolves to; it catches its own errors and then
\* resolves to the empty list
DirectSearchAnswers ==
  {<<>>, <<SiteCom>>, <<SiteList, SiteUk>>, <<SiteComPage, SiteCom>>}

\* answers to a HEAD probe: a status, or 0 for no answer within the timeout
ProbeAnswers == {200, 404, 503, 0}

\* axios rejects when validateStatus is false for the status, or nothing came
probeResolves(answer) == answer /= 0 /\ answer < 500

WebCalls ==
  {[fn |-> "findWebsite", company_name |-> n, pc |-> "request", term |-> 1,
    allSearchResults |-> <<>>, probed |-> <<>>, threw |-> FALSE,
    response |-> NoResponse] : n \in WebNames}

InitWeb == ServiceStart /\ call \in WebCalls

\* the handler up to its first search
FindWebsite ==
  /\ call.fn = "findWebsite"
  /\ call.pc = "request"
  /\ call' = IF call.company_name = Null
             THEN [call EXCEPT !.pc = "done", !.response = [NoResponse EXCEPT !.status = 400]]
             ELSE [call EXCEPT !.pc = "search"]
  /\ UNCHANGED serviceVars

\* one directWebSearch resolves; after the third the results are deduplicated
\* and, if any is left, scored and answered
DirectSearchReply ==
  /\ call.fn = "findWebsite"
  /\ call.pc = "search"
  /\ \E results \in DirectSearchAnswers :
       LET tagged == [k \in DOMAIN results |-> [results[k] EXCEPT !.searchTerm = call.term]]
           all == call.allSearchResults \o tagged
           unique == uniqueByHostname(all, 1, {})
           normalizedCompanyName == trim(toLowerCase(call.company_name))
       IN call' =
            IF call.term < 3
            THEN [call EXCEPT !.allSearchResults = all, !.term = @ + 1]
            ELSE IF unique /= <<>>
            THEN [call EXCEPT !.allSearchResults = unique, !.pc = "done",
                              !.response = Responds(bestResult(unique, normalizedCompanyName).url,
                                                    "web_search")]
            ELSE [call EXCEPT !.allSearchResults = unique, !.pc = "google"]
  /\ UNCHANGED serviceVars

\* the paid search API answers or fails; its answer is not used
GoogleReply ==
  /\ call.fn = "findWebsite"
  /\ call.pc = "google"
  /\ \E answer \in {"ok", "error"} : call' = [call EXCEPT !.pc = "probe"]
  /\ UNCHANGED serviceVars

finalWebsite(validWebsite, company_name) ==
  IF validWebsite /= Null THEN validWebsite
  ELSE IF isUkCompany(company_name)
  THEN HttpsPrefix \o WwwPrefix \o companyNameSlug(company_name) \o <<".", "c", "o", ".", "u", "k">>
  ELSE domainGuesses(company_name)[1]

\* one HEAD probe of the loop over domainGuesses resolves or rejects
DomainProbeReply ==
  /\ call.fn = "findWebsite"
  /\ call.pc = "probe"
  /\ \E answer \in ProbeAnswers :
       LET guesses == domainGuesses(call.company_name)
           tried == Append(call.probed, answer)
           answered(validWebsite) ==
             [call EXCEPT !.probed = tried, !.pc = "done",
                          !.response = Responds(finalWebsite(validWebsite, call.company_name),
                                                "domain_guess")]
       IN call' =
            IF probeResolves(answer) /\ answer < 400 THEN answered(guesses[Len(tried)])
            ELSE IF Len(tried) < Len(guesses) THEN [call EXCEPT !.probed = tried]
            ELSE answered(Null)
  /\ UNCHANGED serviceVars

\* a variant of UnexpectedError whose catch block answers nothing
UnexpectedError_unanswered ==
  /\ call.fn = "findWebsite"
  /\ call.pc \in {"search", "google", "probe"}
  /\ call' = [call EXCEPT !.pc = "done", !.threw = TRUE]
  /\ UNCHANGED serviceVars

\* an exception inside the try block that none of the inner handlers catches:
\* the outer catch answers with the .com guess
UnexpectedError ==
  /\ call.fn = "findWebsite"
  /\ call.pc \in {"search", "google", "probe"}
  /\ call' = [call EXCEPT !.pc = "done", !.threw = TRUE,
                          !.response =
                            Responds(HttpsPrefix \o WwwPrefix
                                       \o companyNameSlug(call.company_name) \o <<".", "c", "o", "m">>,
                                     "error_fallback")]
  /\ UNCHANGED serviceVars

NextWeb ==
  \/ FindWebsite
  \/ DirectSearchReply
  \/ GoogleReply
  \/ DomainProbeReply
  \/ UnexpectedError

SpecWeb == InitWeb /\ [][NextWeb]_vars

\* ------------------------------------------------------------- properties
OtherJobs(id) == JobIds \ {id}

LastEntry(log) == log[Len(log)]

IsPrefix(s, t) == Len(s) <= Len(t) /\ SubSeq(t, 1, Len(s)) = s

Running(id) == proc[id].pc /= "idle"

\* C1: every change of a job's status is one of pending -> processing,
\* processing -> completed, processing -> failed, processing -> action_required,
\* action_required -> processing; so a job reaches completed or failed only from
\* processing.
C1_AllowedTransitions ==
  transitions \subseteq
    {<<"pending", "processing">>, <<"processing", "completed">>,
     <<"processing", "failed">>, <<"processing", "action_required">>,
     <<"action_required", "processing">>}

\* a job went through a continuation and completed
C1_Witness ==
  {<<"pending", "processing">>, <<"processing", "action_required">>,
   <<"action_required", "processing">>, <<"processing", "completed">>} \subseteq transitions

\* C2: once a job is completed or failed, its status, its log and its result
\* never change again, whatever request or processor step follows.
C2_TerminalJobsFrozen ==
  [][\A id \in JobIds :
       jobStatus[id] \in {"completed", "failed"} =>
         /\ jobStatus'[id] = jobStatus[id]
         /\ jobLogs'[id] = jobLogs[id]
         /\ jobResult'[id] = jobResult[id]]_vars

\* a job is finished while the processor of a later job is at work
C2_Witness ==
  \E id \in JobIds : \E other \in OtherJobs(id) :
    jobStatus[id] = "completed" /\ Running(other)

\* C3: whenever a job is action_required, the required_fields that jobStatus
\* and jobLog report are present and non-empty.
C3_RequiredFieldsReported ==
  \A id \in JobIds :
    jobStatus[id] = "action_required" =>
      /\ jobStatusResponse(id).required_fields /= {}
      /\ jobLogResponse(id).required_fields /= {}

\* C4: at most one processor is at work at any time, the flag is up while it
\* is, and the worker takes an item from the queue only when no processor is
\* at work or in the very run in which the processor at work returns.
C4_OneProcessorAtATime ==
  /\ [](/\ Cardinality({id \in JobIds : Running(id)}) <= 1
        /\ (\E id \in JobIds : Running(id)) => isProcessing)
  /\ [][\A id \in JobIds :
          Running(id) /\ Len(startOrder') > Len(startOrder) =>
            jobStatus'[id] /= "processing"]_vars

\* a processor is suspended in an external call while another item waits
C4_Witness == \E id \in JobIds : Running(id) /\ jobQueue /= <<>>

\* C5: the worker starts the queued items in the order in which they were
\* enqueued: the n-th item started is the n-th item enqueued.
C5_StartedInEnqueueOrder == \A n \in DOMAIN startOrder : startOrder[n] = n

\* two items have been started and two more wait behind a running processor
C5_Witness == Len(startOrder) >= 2 /\ Len(jobQueue) >= 2

\* C6: a job's log only grows at its end: the log before a step is a prefix of
\* the log after it.
C6_LogAppendOnly == [][\A id \in JobIds : IsPrefix(jobLogs[id], jobLogs'[id])]_vars

\* a log that grew through a first pass and a continuation
C6_Witness ==
  \E id \in JobIds : \E k \in DOMAIN jobLogs[id] :
    jobLogs[id][k].step = "Additional Information" /\ Len(jobLogs[id]) >= k + 3

\* C7: a job has a stored result exactly when its status is completed, and a
\* stored result is never replaced.
C7_ResultIffCompleted ==
  /\ [](\A id \in JobIds : jobResult[id] /= NoResult <=> jobStatus[id] = "completed")
  /\ [][\A id \in JobIds : jobResult[id] /= NoResult => jobResult'[id] = jobResult[id]]_vars

\* one job holds a verified result while another still waits in the queue
C7_Witness ==
  \E id \in JobIds : \E other \in OtherJobs(id) :
    /\ jobResult[id].verification_status = "verified"
    /\ jobStatus[other] = "pending"

\* C8: when a job is completed, the last entry of its log has step 'Completed'
\* and the result embedded in that entry equals the stored result.
C8_CompletedEntryLast ==
  \A id \in JobIds :
    jobStatus[id] = "completed" =>
      /\ jobLogs[id] /= <<>>
      /\ LastEntry(jobLogs[id]).step = "Completed"
      /\ LastEntry(jobLogs[id]).result = jobResult[id]

\* a job completed with validation issues in its result
C8_Witness ==
  \E id \in JobIds :
    /\ jobStatus[id] = "completed"
    /\ Len(jobResult[id].validation_issues) >= 2

\* C9: continueKYB for a job that is not action_required is answered with an
\* error and changes neither a status, nor a log, nor the queue; this includes
\* a second continueKYB while the first is still queued or running.
C9_ContinueRejected ==
  /\ [](\A id \in JobIds :
          jobStatus[id] \notin {"none", "action_required"} => continueKYBCode(id) = 400)
  /\ [][\A id \in JobIds :
          jobStatus[id] /= "action_required" /\ ContinueKYB(id) =>
            UNCHANGED <<jobStatus, jobLogs, jobResult, jobQueue, continues>>]_vars

\* a job whose accepted continuation still waits in the queue
C9_Witness ==
  \E id \in JobIds : \E n \in DOMAIN jobQueue :
    /\ jobStatus[id] = "processing"
    /\ jobQueue[n].id = id
    /\ jobQueue[n].type = "kybContinue"

\* C10: a continuation that supplies a crn, with or without a company name,
\* does not restart and does not resolve the identity again: the processor's
\* first external call is the registry profile lookup of that very crn, and
\* the first entry it logs is the profile or the request for a valid crn.
C10_CrnContinuationSkipsResolution ==
  \A id \in JobIds : \A k \in DOMAIN jobLogs[id] :
    LET log == jobLogs[id]
    IN log[k].step = "Additional Information" /\ log[k].data.crn /= Null =>
         /\ k < Len(log) =>
              log[k + 1].step \in {"Companies House Profile", "Action Required"}
         /\ k = Len(log) /\ Running(id) =>
              proc[id].pc = "profile" /\ proc[id].crn = log[k].data.crn

\* a continuation with both crn and company name got the profile of that crn
C10_Witness ==
  \E id \in JobIds : \E k \in DOMAIN jobLogs[id] :
    LET log == jobLogs[id]
    IN /\ log[k].step = "Additional Information"
       /\ log[k].data.crn /= Null
       /\ log[k].data.company_name /= Null
       /\ k < Len(log)
       /\ log[k + 1].step = "Companies House Profile"

\* a logged continuation that supplies neither crn nor company_name
SuppliesNeither(e) ==
  e.step = "Additional Information" /\ e.data.crn = Null /\ e.data.company_name = Null

\* C11: a continuation that supplies neither crn nor company_name is accepted
\* and logged, and its processor puts the job back in action_required with an
\* entry whose required_fields name crn; it neither completes nor fails the job.
C11_NeitherInputAsksForCrnAgain ==
  \A id \in JobIds : \A k \in DOMAIN jobLogs[id] :
    LET log == jobLogs[id]
    IN SuppliesNeither(log[k]) =>
         /\ k = Len(log) => jobStatus[id] = "processing" /\ ~Running(id)
         /\ k < Len(log) =>
              log[k + 1].step = "Action Required" /\ "crn" \in log[k + 1].required_fields
         /\ k + 1 = Len(log) => jobStatus[id] = "action_required"

\* the same job went twice through such a continuation, once with a website
\* only, and waits for input again
C11_Witness ==
  \E id \in JobIds : \E k1, k2 \in DOMAIN jobLogs[id] :
    /\ k1 < k2
    /\ SuppliesNeither(jobLogs[id][k1])
    /\ jobLogs[id][k1].data.website /= Null
    /\ SuppliesNeither(jobLogs[id][k2])
    /\ k2 + 1 = Len(jobLogs[id])
    /\ jobStatus[id] = "action_required"

\* the step logs 'Process Restarted' for job id
RestartLogged(id) ==
  \E k \in DOMAIN jobLogs'[id] :
    k > Len(jobLogs[id]) /\ jobLogs'[id][k].step = "Process Restarted"

\* C12: a continuation that supplies only company_name restarts identity
\* resolution: the run that logs 'Process Restarted' sends the AI lookup for
\* the new name, so it ends with the job processing and its processor waiting
\* for an external answer.
C12_RestartPerformsAiLookup ==
  [][\A id \in JobIds :
       RestartLogged(id) => jobStatus'[id] = "processing" /\ proc'[id].pc /= "idle"]_vars

\* the entries that record a failed call of identity resolution
ResolutionFailureSteps ==
  {"GPT Error", "Companies House Search Failed", "Second AI Attempt Failed"}

HasStep(log, steps) == \E k \in DOMAIN log : log[k].step \in steps

\* C13: in the initial pass, once the second AI attempt has been made, a
\* request error or an answer without a CRN is followed at once by the
\* 'Action Required' entry whose required_fields name crn, with the job
\* action_required; and a job whose log records a failed call of identity
\* resolution is never failed.
C13_ExhaustedFallbacksAskForCrn ==
  \A id \in JobIds :
    LET log == jobLogs[id]
    IN /\ \A k \in DOMAIN log :
            log[k].step = "CRN Second Attempt" /\ k < Len(log) =>
              LET asked == IF log[k + 1].step = "Second AI Attempt Failed" THEN k + 2
                           ELSE k + 1
              IN \/ log[k + 1].step = "Second AI Attempt"
                 \/ /\ asked <= Len(log)
                    /\ log[asked].step = "Action Required"
                    /\ "crn" \in log[asked].required_fields
                    /\ asked = Len(log) => jobStatus[id] = "action_required"
       /\ jobStatus[id] = "failed" => ~HasStep(log, ResolutionFailureSteps)

\* every strategy failed: AI request error, name-search error, second AI
\* request error; the job waits for a CRN
C13_Witness ==
  \E id \in JobIds :
    /\ \A s \in ResolutionFailureSteps : HasStep(jobLogs[id], {s})
    /\ LastEntry(jobLogs[id]).step = "Action Required"
    /\ jobStatus[id] = "action_required"

\* the second AI prompt's explicit negative ("no active CRN found")
ExplicitNegative == [kind |-> "negative", crn |-> Null]

\* C14: when the second AI prompt answers with the explicit negative, the run
\* that receives it completes the job with a no_company_found result whose
\* company fields are null; the job does not become action_required.
C14_ExplicitNegativeCompletes ==
  [][\A id \in JobIds :
       Resume(id, "second_ai", afterSecondAi(State, id, ExplicitNegative)) =>
         /\ jobStatus'[id] = "completed"
         /\ jobResult'[id].verification_status = "no_company_found"
         /\ jobResult'[id].company_registration_number = Null]_vars

\* the registry's not-found answer to a single-company lookup
NotFound == RegistryError("http_error", 404)

\* C15: when the registry answers 404 to the verification lookup of kybTask or
\* to the profile lookup of processCRN, the run that receives the answer
\* completes the job with verification_status no_company_found.
C15_NotFoundCompletes ==
  [][\A id \in JobIds :
       (\/ Resume(id, "verify_crn", afterCrnVerification(State, id, NotFound))
        \/ Resume(id, "profile", afterProfile(State, id, NotFound)))
       => (/\ jobStatus'[id] = "completed"
           /\ jobResult'[id].verification_status = "no_company_found")]_vars

\* the registry's answer for a company that is not active
Dissolved == RegistryOk("dissolved", NameSame)

\* C16: whenever the registry reports a non-active status for the CRN being
\* verified (verification lookup of kybTask, profile lookup of processCRN), the
\* run that receives the answer puts the job in action_required; and no
\* processor that was told of a non-active company completes its job.
C16_NonActiveNeverCompleted ==
  [][\A id \in JobIds :
       /\ (\/ Resume(id, "verify_crn", afterCrnVerification(State, id, Dissolved))
           \/ Resume(id, "profile", afterProfile(State, id, Dissolved)))
          => jobStatus'[id] = "action_required"
       /\ (Running(id) /\ proc[id].company_status \notin {"", "active"})
          => jobStatus'[id] /= "completed"]_vars

\* similarity of a registry name to the requested name, as kybTask compares them
Similarity(name, business_name) ==
  calculateNameSimilarity(toLowerCase(name), toLowerCase(business_name))

\* C17: when the verification lookup returns an active company whose name has
\* similarity below 0.3 to the requested name, the job becomes action_required
\* asking for the correct CRN; from 0.3 up to 0.5 it becomes action_required
\* asking for confirmation; and on no path does a processor complete its job
\* on a company whose name has similarity below 0.5.
C17_DissimilarCompanyNeverCompleted ==
  [][\A id \in JobIds :
       /\ \A n \in {NameNear, NameDoubtful, NameFar, NameOther} :
            Resume(id, "verify_crn", afterCrnVerification(State, id, RegistryOk("active", n)))
            => LET sim == Similarity(n, proc[id].business_name)
                   asked == LastEntry(jobLogs'[id])
               IN /\ Below(sim, 3) =>
                       /\ jobStatus'[id] = "action_required"
                       /\ asked.step = "Wrong Company Detected"
                       /\ "crn" \in asked.required_fields
                  /\ (~Below(sim, 3) /\ Below(sim, 5)) =>
                       /\ jobStatus'[id] = "action_required"
                       /\ "confirm_company" \in asked.required_fields
       /\ (/\ Running(id)
           /\ proc[id].company_name /= Null
           /\ Below(Similarity(proc[id].company_name, proc[id].business_name), 5))
          => jobStatus'[id] /= "completed"]_vars

\* entry k of the log answers "yes" to the confirmation request just before it
ConfirmsCompany(log, k) ==
  /\ k > 1
  /\ log[k].step = "Additional Information"
  /\ log[k].data.confirm_company = ConfirmYes
  /\ log[k - 1].step = "Action Required"
  /\ "confirm_company" \in log[k - 1].required_fields

\* the step runs the processor of such a continuation of job id
ConfirmationRun(id) ==
  \E k \in DOMAIN jobLogs'[id] :
    /\ k >= Len(jobLogs[id])
    /\ ConfirmsCompany(jobLogs'[id], k)
    /\ Len(jobLogs'[id]) > k \/ proc'[id].pc /= "idle"

\* C18: after a confirmation request, a continuation with confirm_company =
\* "yes" accepts the CRN that was found: the run of its processor ends with the
\* job processing and waiting for the registry, not with the job back in
\* action_required asking for a CRN.
C18_ConfirmationResumes ==
  [][\A id \in JobIds :
       ConfirmationRun(id) => jobStatus'[id] = "processing" /\ proc'[id].pc /= "idle"]_vars

\* the issues recorded in a compiled result, as a set
IssuesOf(result) == {result.validation_issues[k] : k \in DOMAIN result.validation_issues}

\* C19: a compiled result that records a CRN mismatch between the website and
\* the registry carries a "warning:" verification_status, and a result is
\* "verified" only when no validation issue was recorded.
C19_MismatchIsWarning ==
  \A id \in JobIds :
    jobStatus[id] = "completed" =>
      /\ "CRN mismatch" \in IssuesOf(jobResult[id]) =>
           jobResult[id].verification_status = "warning: validation issues found"
      /\ jobResult[id].verification_status = "verified" =>
           jobResult[id].validation_issues = <<>>

\* the website collector's answers that agree with the registry record held by
\* the processor of job id: the same CRN, and no name or the same name
AgreeingScrapes(id) ==
  {w \in ScrapeAnswers :
     /\ w.kind = "ok"
     /\ w.crn /= Null
     /\ toUpperCase(w.crn) = toUpperCase(proc[id].crn)
     /\ w.company_name \in {Null, proc[id].company_name}}

\* C20: happy path: when the registry reported the company active and the
\* website collector finds a CRN equal to the registry CRN, the job completes
\* with verification_status "verified" and an empty validation_issues list.
C20_HappyPathVerifiedNoIssues ==
  [][\A id \in JobIds : \A w \in AgreeingScrapes(id) :
       ( /\ proc[id].company_status = "active"
         /\ proc[id].company_name /= Null
         /\ Resume(id, "scrape", afterScrape(State, id, w)) ) =>
         ( /\ jobStatus'[id] = "completed"
           /\ jobResult'[id].verification_status = "verified"
           /\ jobResult'[id].validation_issues = <<>> )]_vars

\* the calls that are registry single-company lookups: the sanity check of the
\* AI-derived CRN, the check of the registry-search result, the final
\* verification of the initial pass, and the profile lookup of processCRN
RegistryLookups == {"check_ai_crn", "check_search_crn", "verify_crn", "profile"}

\* C21: format validation precedes every registry call: no processor is ever
\* waiting for a registry single-company lookup of a CRN that fails
\* validateCRNFormat.
C21_FormatCheckedBeforeLookup ==
  \A id \in JobIds :
    proc[id].pc \in RegistryLookups => validateCRNFormat(proc[id].crn)

\* entry k of the log is a continuation whose crn the format check rejects
FormatRejected(log, k) ==
  /\ log[k].step = "Additional Information"
  /\ log[k].data.crn /= Null
  /\ ~validateCRNFormat(log[k].data.crn)

\* the step runs the processor of such a continuation of job id
FormatRejectedRun(id) ==
  \E k \in DOMAIN jobLogs'[id] :
    /\ k >= Len(jobLogs[id])
    /\ FormatRejected(jobLogs'[id], k)
    /\ Len(jobLogs'[id]) > k \/ proc'[id].pc /= "idle"

SpecifiedCrn(s) ==
  \/ Len(s) = 8 /\ \A i \in 1..8 : s[i] \in Digits
  \/ \E p \in {<<"S", "C">>, <<"N", "I">>, <<"O", "C">>} : \E n \in 6..8 :
       /\ Len(s) = 2 + n
       /\ SubSeq(s, 1, 2) = p
       /\ \A i \in 3..(2 + n) : s[i] \in Digits

\* C23: validateCRNFormat answers true exactly for 8 digits or a prefix out of
\* SC, NI, OC followed by 6 to 8 digits; "12345678" and "SC123456" are
\* accepted, "1234567" and "sc123456" rejected; repeated calls on the same
\* string give the same answer.
C23_ValidateCRNFormatExact ==
  call.fn = "validateCRNFormat" =>
    /\ \A k \in DOMAIN call.answers : call.answers[k] = SpecifiedCrn(call.crn)
    /\ call.answers /= <<>> =>
         /\ call.crn \in {CrnGood, CrnScottish} => call.answers[1]
         /\ call.crn \in {CrnShort, <<"s", "c">> \o DigitRun(6)} => ~call.answers[1]

\* the lowercase-prefixed string was rejected twice
C23_Witness ==
  /\ call.fn = "validateCRNFormat"
  /\ call.crn = <<"s", "c">> \o DigitRun(6)
  /\ call.answers = <<FALSE, FALSE>>

\* the completion without content, whose handling throws out of kybTask's stages
NoContent == [kind |-> "null_content", crn |-> Null]

Queued(queue, id) == \E k \in DOMAIN queue : queue[k].id = id

\* C24: when an unexpected exception escapes a job's stages, the job becomes
\* failed and the last entry of its log is an 'Error' entry carrying the
\* exception's message; a failed job is not enqueued or run again.
C24_EscapedExceptionFailsJob ==
  [][\A id \in JobIds :
       /\ Resume(id, "first_ai", afterFirstAi(State, id, NoContent)) =>
            /\ jobStatus'[id] = "failed"
            /\ LastEntry(jobLogs'[id]).step = "Error"
            /\ LastEntry(jobLogs'[id]).error = NullMatchError.message
            /\ proc'[id].pc = "idle"
            /\ ~Queued(jobQueue', id)
       /\ jobStatus[id] = "failed" =>
            /\ jobStatus'[id] = "failed"
            /\ jobLogs'[id] = jobLogs[id]
            /\ proc'[id].pc = "idle"
            /\ ~Queued(jobQueue', id)]_vars

\* a job failed on the escaped exception, its message in the last log entry
C24_Witness ==
  \E id \in JobIds :
    /\ jobStatus[id] = "failed"
    /\ LastEntry(jobLogs[id]).step = "Error"
    /\ LastEntry(jobLogs[id]).error = NullMatchError.message
    /\ ~isProcessing

InProgress(id) == jobStatus[id] \in {"pending", "processing"}

AtRest(id) == jobStatus[id] \in {"action_required", "completed", "failed"}

\* C25: if every external call eventually returns or fails, every job created
\* by startKYB and every continuation accepted by continueKYB eventually
\* leaves pending/processing and reaches action_required, completed or failed.
C25_EveryJobComesToRest == \A id \in JobIds : InProgress(id) ~> AtRest(id)

\* three jobs came to rest, one of them after an accepted continuation
C25_Witness ==
  /\ \A id \in JobIds : AtRest(id)
  /\ \E id \in JobIds : HasStep(jobLogs[id], {"Additional Information"})

\* the calls the claim names: the AI completion requests and the registry
\* name searches
AiAndSearchCalls ==
  {"first_ai", "second_ai", "website_ai", "ai_verification", "registry_search",
   "search_website_name"}

\* C26: every external call is bounded by a timeout that counts as a
\* recoverable failure of its stage: an AI completion request or a registry
\* name search that never responds is abandoned, so no processor waits in one
\* forever, and the job leaves processing and lets the queue behind it be
\* served.  A call is abandoned only by a timer of its own, so the processor
\* never waits in one of these calls that was made without a timeout.
C26_UnansweredCallIsAbandoned ==
  \A id \in JobIds :
    proc[id].pc \in AiAndSearchCalls => proc[id].pc \notin UntimedCallSites

\* C27: jobStatus and jobLog are pure readers: a call of either, for a known or
\* an unknown job id and at any point of any job's processing, leaves every
\* job's status, log and result, the queue and the worker flag unchanged.
C27_ReadersChangeNothing ==
  [][\A job_id \in JobIds :
       JobStatus(job_id) \/ JobLog(job_id) =>
         UNCHANGED <<jobStatus, jobLogs, jobResult, jobQueue, isProcessing, proc>>]_vars

\* the readers answer 200 for a job in the middle of its processing, with work
\* queued behind it, and 404 for an id that was never handed out
C27_Witness ==
  /\ \E id \in JobIds : readerCode(id) = 200 /\ jobStatus[id] = "processing"
  /\ \E id \in JobIds : readerCode(id) = 404
  /\ isProcessing
  /\ jobQueue /= <<>>

\* round(steps / 10 * 100) for a whole number of steps
RoundedTenfold(steps) == 10 * steps

\* C28: percent_complete is 0 for pending, 50 for action_required,
\* min(round(steps/10*100), 90) for processing and 100 for completed; it never
\* exceeds 90 while a job is processing and is always within 0..100.
C28_PercentComplete ==
  call.fn = "calculateJobProgress" =>
    \A k \in DOMAIN call.answers :
      LET percent == call.answers[k]
          steps == call.logSteps
      IN /\ call.status = "pending" => percent = 0
         /\ call.status = "action_required" => percent = 50
         /\ call.status = "completed" => percent = 100
         /\ call.status = "processing" =>
              /\ percent = IF RoundedTenfold(steps) < 90 THEN RoundedTenfold(steps) ELSE 90
              /\ percent <= 90
         /\ percent \in 0..100

\* a processing job with more than nine log entries was reported at 90
C28_Witness ==
  /\ call.fn = "calculateJobProgress"
  /\ call.status = "processing"
  /\ call.logSteps = 11
  /\ call.answers = <<90, 90>>

\* the registry's rate-limit and authorisation errors
QuotaErrors == {RegistryError("http_error", c) : c \in {401, 403, 429}}

\* the processor of job id is waiting for a registry lookup of the given CRN
LooksUp(p, crn) == p.pc \in RegistryLookups /\ p.crn = crn

\* C29: a registry lookup answered with a rate-limit or auth error (429, 401,
\* 403) is surfaced and not silently retried: after such an answer the job
\* goes to action_required, and its run issues no further registry lookup for
\* the same CRN.
C29_QuotaErrorNotRetried ==
  [][\A id \in JobIds : \A r \in QuotaErrors :
       ( \/ Resume(id, "check_ai_crn", afterAiCrnCheck(State, id, r))
         \/ Resume(id, "check_search_crn", afterSearchCrnCheck(State, id, r))
         \/ Resume(id, "verify_crn", afterCrnVerification(State, id, r))
         \/ Resume(id, "profile", afterProfile(State, id, r)) ) =>
         ( /\ jobStatus'[id] = "action_required"
           /\ ~LooksUp(proc'[id], proc[id].crn) )]_vars

\* two scores, each a fraction, are the same number
SameScore(x, y) == x[1] * y[2] = y[1] * x[2]

Symmetric(answer) == SameScore(answer.ab, answer.ba)

Bounded(answer) == answer.ab[1] >= 0 /\ answer.ab[1] <= answer.ab[2] /\ answer.ab[2] > 0

Reflexive(answer) == SameScore(answer.aa, <<1, 1>>)

\* C30: name similarity is symmetric, bounded by 0 and 1, and 1 for a name
\* compared with itself, also for a name that normalises to the empty string;
\* this holds for calculateNameSimilarity and for calculateStringSimilarity.
C30_SimilarityLaws ==
  call.fn \in SimilarityRoutines =>
    \A k \in DOMAIN call.answers :
      Symmetric(call.answers[k]) /\ Bounded(call.answers[k]) /\ Reflexive(call.answers[k])

\* the first AI answers that carry a CRN, parsed from JSON or extracted by the
\* labelled or the generic pattern
FirstAiAnswersWithCrn == {a \in FirstAiAnswers : a.crn /= Null}

\* C32: in the initial pass every CRN of the first AI answer, from JSON or from
\* the labelled or generic pattern, is sanity-checked against the registry
\* before use: after such an answer the processor waits for the sanity check
\* of that CRN, and a check that names a company with similarity below 0.4
\* resets the candidate and continues with the registry name search.
C32_AiCrnSanityChecked ==
  [][\A id \in JobIds :
       /\ \A a \in FirstAiAnswersWithCrn :
            Resume(id, "first_ai", afterFirstAi(State, id, a)) =>
              proc'[id].pc = "check_ai_crn" /\ proc'[id].crn = a.crn
       /\ \A r \in CandidateCheckAnswers :
            ( /\ wrongCompany(r, proc[id].business_name)
              /\ Resume(id, "check_ai_crn", afterAiCrnCheck(State, id, r)) ) =>
              proc'[id].pc = "registry_search" /\ proc'[id].crn = Null]_vars

\* the validation issue that would name the alternative CRN, by its opening words
AlternativeCrnIssue == "Potential CRN mismatch detected"

\* the log records that the secondary name search found a company of
\* similarity above 0.8 whose CRN differs from the current one
AlternativeCrnFound(log) == HasStep(log, {"CRN Verification Alert"})

\* C33: on a name mismatch between website and registry, when the secondary
\* registry name search finds a company with similarity above 0.8 whose CRN
\* differs from the current one, the compiled result's validation_issues has
\* an entry recording that alternative CRN.
C33_AlternativeCrnIsValidationIssue ==
  \A id \in JobIds :
    (jobStatus[id] = "completed" /\ AlternativeCrnFound(jobLogs[id])) =>
      AlternativeCrnIssue \in IssuesOf(jobResult[id])

\* the calls of processCRN, from the registry profile lookup to the last
\* cross-validation call
ProcessCRNCalls ==
  {"profile", "officers", "psc", "document", "scrape", "search_website_name",
   "ai_verification"}

\* C34: cross-validation never switches the accepted CRN: whatever the scrape,
\* the secondary name search or the extra AI verification return, the CRN the
\* processor holds stays the one passed to the registry profile lookup, and
\* the registration number of the result of a job that completes is that CRN
\* or null.
C34_CrossValidationKeepsCrn ==
  [][\A id \in JobIds :
       proc[id].pc \in ProcessCRNCalls =>
         /\ proc'[id].pc \in ProcessCRNCalls => proc'[id].crn = proc[id].crn
         /\ jobStatus'[id] = "completed" =>
              jobResult'[id].company_registration_number \in {Null, proc[id].crn}]_vars

\* a job completed with the CRN it was verified with although the website
\* showed another CRN and the secondary name search suggested another company
C34_Witness ==
  \E id \in JobIds :
    /\ jobStatus[id] = "completed"
    /\ AlternativeCrnFound(jobLogs[id])
    /\ HasStep(jobLogs[id], {"CRN Cross-Validation"})
    /\ HasStep(jobLogs[id], {"AI Verification Error"})
    /\ jobResult[id].company_registration_number = CrnGood
    /\ "CRN mismatch" \in IssuesOf(jobResult[id])

\* C35: website collection failures are not fatal: for a failed fetch the
\* collector throws nothing and returns crn null with an error note, and the
\* job goes on to completed, with no website CRN in its result, not to failed
\* or action_required.
C35_ScrapeFailureNotFatal ==
  [][\A id \in JobIds :
       Resume(id, "scrape", afterScrape(State, id, scrapeFailed)) =>
         /\ scrapeFailed.kind = "ok" /\ scrapeFailed.crn = Null /\ scrapeFailed.error_note
         /\ jobStatus'[id] = "completed"
         /\ "CRN not found on company website" \in IssuesOf(jobResult'[id])
         /\ "CRN mismatch" \notin IssuesOf(jobResult'[id])
         /\ LastEntry(jobLogs'[id]).step = "Completed"
         /\ ~HasStep(SubSeq(jobLogs'[id], Len(jobLogs[id]) + 1, Len(jobLogs'[id])),
                     {"Error", "Action Required", "Website CRN Validation"})]_vars

\* a job completed after a website collection that brought neither a CRN nor
\* a company name
C35_Witness ==
  \E id \in JobIds :
    /\ jobStatus[id] = "completed"
    /\ Len(jobLogs[id]) >= 3
    /\ jobLogs[id][Len(jobLogs[id]) - 2].step = "Website Data"
    /\ jobLogs[id][Len(jobLogs[id]) - 1].step = "Website Scrape Details"
    /\ "CRN not found on company website" \in IssuesOf(jobResult[id])

\* the entries of the log that put the job in action_required
ActionRequests(log) == {k \in DOMAIN log : log[k].required_fields /= {}}

\* the entry written by the most recent transition into action_required
LastActionRequest(log) ==
  log[CHOOSE k \in ActionRequests(log) : \A j \in ActionRequests(log) : j <= k]

\* C36: for a job in action_required, the required_fields that jobStatus and
\* jobLog return are those written by the job's most recent transition into
\* action_required, also after several such transitions with different
\* required inputs; stated here for the transitions that write an entry with
\* step 'Action Required', the step both readers look for.
C36_LatestRequiredFieldsReported ==
  \A id \in JobIds :
    ( /\ jobStatus[id] = "action_required"
      /\ LastActionRequest(jobLogs[id]).step = "Action Required" ) =>
      /\ jobStatusResponse(id).required_fields = LastActionRequest(jobLogs[id]).required_fields
      /\ jobLogResponse(id).required_fields = LastActionRequest(jobLogs[id]).required_fields

Answered == call.fn = "findWebsite" /\ call.pc = "done"

\* C31: web discovery always answers with a URL: for every non-empty company
\* name and every combination of search, paid-API and probe failures, the
\* answer carries a non-empty website and the source web_search, domain_guess
\* or error_fallback; the source is domain_guess only when the searches gave
\* no result, and error_fallback only after an unexpected error.
C31_WebDiscoveryAlwaysAnswers ==
  (Answered /\ call.company_name /= Null) =>
    /\ call.response.status = 200
    /\ call.response.website /= Null
    /\ call.response.source \in {"web_search", "domain_guess", "error_fallback"}
    /\ call.response.source = "error_fallback" <=> call.threw
    /\ call.response.source = "web_search" => call.allSearchResults /= <<>>
    /\ call.response.source = "domain_guess" =>
         call.allSearchResults = <<>> /\ call.term = 3 /\ call.probed /= <<>>

\* every search came back empty and none of the six probes was answered: the
\* request for a UK name is answered with the unverified first guess
C31_Witness ==
  /\ Answered
  /\ isUkCompany(call.company_name)
  /\ Len(call.probed) = 6
  /\ \A k \in DOMAIN call.probed : ~probeResolves(call.probed[k])
  /\ call.response.source = "domain_guess"
  /\ call.response.website = domainGuesses(call.company_name)[1]

\* the probes that got a non-5xx response, 4xx included
Responders(probed) == {k \in DOMAIN probed : probeResolves(probed[k])}

\* C37: domain guessing probes the guesses in priority order and answers with
\* the first guess whose probe got any non-5xx response, 4xx included; when
\* no guess responds, it answers with the first guess of the priority list.
C37_FirstRespondingGuessWins ==
  (Answered /\ call.response.source = "domain_guess") =>
    LET guesses == domainGuesses(call.company_name)
        responders == Responders(call.probed)
    IN call.response.website =
         IF responders = {} THEN guesses[1]
         ELSE guesses[CHOOSE k \in responders : \A j \in responders : k <= j]

\* the entries a step appends to the log of job id
Appended(id) == SubSeq(jobLogs'[id], Len(jobLogs[id]) + 1, Len(jobLogs'[id]))

\* C38: there are no concurrent writers to one job's log: continueKYB appends
\* its 'Additional Information' entry only to a job that is neither running
\* nor queued; every other entry is appended by the worker to the log of the
\* job it is running, or of the job it takes from the queue in that very run;
\* so no handler entry lands between the worker's entries of one run.
C38_OneWriterPerLog ==
  [][\A id \in JobIds :
       /\ IsPrefix(jobLogs[id], jobLogs'[id])
       /\ \A k \in DOMAIN Appended(id) :
            IF Appended(id)[k].step = "Additional Information"
            THEN k = 1 /\ ~Running(id) /\ ~Queued(jobQueue, id)
            ELSE IF Appended(id)[k].step = "Original Request"
            THEN k = 1 /\ jobStatus[id] = "none"
            ELSE \/ Running(id)
                 \/ Queued(jobQueue, id)
                 \/ Appended(id)[1].step \in {"Additional Information", "Original Request"}]_vars

\* the handler has appended to the log of a job that now waits in the queue,
\* while the worker is running another job that was itself continued
C38_Witness ==
  \E id \in JobIds : \E other \in OtherJobs(id) :
    /\ Running(id)
    /\ HasStep(jobLogs[id], {"Additional Information"})
    /\ Queued(jobQueue, other)
    /\ LastEntry(jobLogs[other]).step = "Additional Information"

\* the positions of the queue that hold an item of job id
QueuedAt(id) == {k \in DOMAIN jobQueue : jobQueue[k].id = id}

\* C39: each job id occurs at most once among the queued items and the item in
\* flight; a job that is action_required, completed or failed is neither
\* queued nor in flight; a pending job is queued exactly once, as an initial
\* task.
C39_QueuedOrInFlightOnce ==
  \A id \in JobIds :
    /\ Cardinality(QueuedAt(id)) + (IF Running(id) THEN 1 ELSE 0) <= 1
    /\ jobStatus[id] \in {"action_required", "completed", "failed"} =>
         QueuedAt(id) = {} /\ ~Running(id)
    /\ jobStatus[id] = "pending" =>
         /\ ~Running(id)
         /\ \E k \in DOMAIN jobQueue :
              QueuedAt(id) = {k} /\ jobQueue[k].type = "kybTask"

\* one job in flight, and behind it in the queue a continuation and a pending
\* initial task
C39_Witness ==
  \E a, b, c \in JobIds :
    /\ Running(a)
    /\ Len(jobQueue) = 2
    /\ jobQueue[1].id = b /\ jobQueue[1].type = "kybContinue" /\ jobStatus[b] = "processing"
    /\ jobQueue[2].id = c /\ jobQueue[2].type = "kybTask" /\ jobStatus[c] = "pending"

\* the worker is busy exactly when a processor is at work
WorkerBusy == isProcessing /\ \E id \in JobIds : Running(id)

\* the run of a processor ends in this step
RunEnds == \E id \in JobIds : Running(id) /\ proc'[id].pc = "idle"

\* C40: no lost wake-up: whenever the queue is non-empty after a handler or a
\* job run has finished, the worker is busy; when a run ends, by completion,
\* action_required or an exception, with items queued, the head of the queue
\* is taken in that very step and the flag is down only if the queue is
\* empty; so every enqueued item is eventually dequeued.
C40_NoLostWakeUp ==
  /\ [](jobQueue /= <<>> => WorkerBusy)
  /\ [][RunEnds =>
          /\ jobQueue /= <<>> => IsPrefix(jobQueue', Tail(jobQueue))
          /\ ~isProcessing' => jobQueue' = <<>>]_vars
  /\ \A id \in JobIds : Queued(jobQueue, id) ~> ~Queued(jobQueue, id)

\* a job has come to wait for input, the worker has gone on to another job
\* and a third one is queued behind it
C40_Witness ==
  \E id \in JobIds : \E other \in OtherJobs(id) : \E third \in OtherJobs(id) \ {other} :
    /\ jobStatus[id] = "action_required"
    /\ Running(other)
    /\ Queued(jobQueue, third)
    /\ Len(startOrder) >= 2

====
